---- MODULE Spec2Model ----
(***************************************************************************)
(* A model of the core of django-template-preprocessor:                    *)
(*   - tokenize (core/lexer_engine.py), driven by the state tables of      *)
(*     core/js_processor.py and core/django_processor.py;                  *)
(*   - nest_block_level_elements (core/lexer_engine.py);                   *)
(*   - _minify_variable_names (core/js_processor.py).                      *)
(* Text is a sequence of one-character strings.  Patterns are regular      *)
(* expression trees matched with the priority order of a backtracking      *)
(* matcher (Python's re.match).                                            *)
(***************************************************************************)
EXTENDS Integers, Sequences, FiniteSets, TLC

VARIABLES
    phase,          \* which entry point this behaviour runs: "tokenize", "nest", "minify"
    \* ---- tokenize ----
    states,         \* name of the state table passed as `states`
    input_nodes,    \* remaining input children of the tree being tokenized
    string,         \* the concatenated text run being lexed
    position,       \* read position in `string` (0-based)
    line, column,   \* current source position
    state_stack,    \* list of state names
    token_stack,    \* list of node ids (open tokens)
    nodes,          \* the tree: node id -> [name, line, column, children]
    pc,             \* control point of tokenize
    raised,         \* the exception that ended the call, if any
    stopped,        \* number of StopToken actions that popped a token
    shifted,        \* sum of the advances of the Shift actions in this run
    cover,          \* per character of the run: how many Shifts moved over it
    fired,          \* the last rule lookup: state, position, slice, rule index
    stalled,        \* a pass over the rules found no match and the loop went round
    calls           \* the suspended calls of tokenize, the outermost first

tokVars == <<states, input_nodes, string, position, line, column, state_stack,
             token_stack, nodes, stopped, shifted, cover, fired, stalled, calls>>

VARIABLES
    \* ---- nest_block_level_elements ----
    flat,           \* the kinds of the children of the tree, as given (tree.children[:])
    tree_children,  \* tree.children: ids (positions in `flat`) of the nodes still in it
    cursor,         \* index in tree.children[:] of the next child of the for loop
    moving_to_node, \* stack of the nodes of the open blocks
    list_index,     \* the child list that is being filled
    tags_stack,     \* stack of the lists of interior/closing names still valid
    class_of,       \* class of every node (patched when a block opens)
    child_lists,    \* node -> (k -> the list `children<k>`), for the lists that exist
    processed       \* the calls of process_params made so far: <<node, params>>

nestVars == <<flat, tree_children, cursor, moving_to_node, list_index, tags_stack,
              class_of, child_lists, processed>>

VARIABLES
    \* ---- _validate_javascript, _minify_variable_names ----
    js_tokens,      \* the tree of js_node after tokenize, depth first
    symbol_table,   \* node -> its symbol_table: name -> the declaring variable node
    link_to,        \* variable node -> the node it is linked to, 0 for None
    varname,        \* variable node -> its new name, <<>> for None
    global_variable_names,
    names_to_avoid, \* rename_variables: the names not to hand out, as a set
    new_names,      \* rename_variables: the names handed out to one symbol_table
    child_index,    \* _validate_javascript: i[0] + 1, the position in scope.children
    semi_required   \* _validate_javascript: semi_colon_required

minVars == <<js_tokens, symbol_table, link_to, varname, global_variable_names,
             names_to_avoid, new_names, child_index, semi_required>>

VARIABLES
    \* ---- compile_templates: Command.handle, Command._compile_template ----
    queue,          \* the templates to compile, in the order of the loop
    queue_index,    \* position in `queue` of the template the loop is at
    written,        \* positions in `queue` whose output file was written
    errors          \* self._errors: the errors recorded by print_error

batchVars == <<queue, queue_index, written, errors>>

-----------------------------------------------------------------------------
(* Bounds of the explored inputs.                                          *)

MaxJsLen == 3
MaxCalcLen == 4
MaxDjangoWords == 3
MaxPairLen == 3
MaxNestLen == 5
MaxMixedLen == 4
MaxTokens == 17
MaxTreeSize == 4
MaxQueue == 2
MaxSymbols == 30

-----------------------------------------------------------------------------
(* Sequences helpers.                                                      *)

Last(s) == s[Len(s)]
Front(s) == SubSeq(s, 1, Len(s) - 1)

RECURSIVE Flatten(_)
Flatten(ss) == IF ss = <<>> THEN <<>> ELSE Head(ss) \o Flatten(Tail(ss))

RECURSIVE SeqsUpTo(_, _)
SeqsUpTo(S, n) ==
    IF n = 0 THEN {<<>>}
    ELSE LET shorter == SeqsUpTo(S, n - 1)
         IN  shorter \cup {Append(s, x) : s \in {t \in shorter : Len(t) = n - 1}, x \in S}

-----------------------------------------------------------------------------
(* Regular expressions, matched as re.match does: anchored at the start of *)
(* the slice, alternatives and repetitions explored in priority order.     *)

Set(S)  == [op |-> "set", s |-> S]
NSet(S) == [op |-> "nset", s |-> S]
Str(w)  == [op |-> "str", w |-> w]
Ch(c)   == [op |-> "str", w |-> <<c>>]
Cat(ps) == [op |-> "cat", ps |-> ps]
Alt(ps) == [op |-> "alt", ps |-> ps]
Star(r) == [op |-> "star", r |-> r]
Plus(r) == [op |-> "cat", ps |-> <<r, [op |-> "star", r |-> r]>>]
Opt(r)  == [op |-> "alt", ps |-> <<r, [op |-> "str", w |-> <<>>]>>]
NLA(r)  == [op |-> "nla", r |-> r]

Whitespace == {" ", "\t", "\n", "\r", "\f"}
Lower == {"a","b","c","d","e","f","g","h","i","j","k","l","m",
          "n","o","p","q","r","s","t","u","v","w","x","y","z"}
Upper == {"A","B","C","D","E","F","G","H","I","J","K","L","M",
          "N","O","P","Q","R","S","T","U","V","W","X","Y","Z"}
Digit == {"0","1","2","3","4","5","6","7","8","9"}
WS  == Set(Whitespace)           \* \s
Dot == NSet({"\n"})              \* .
AnyChar == Alt(<<Dot, WS>>)      \* .|\s

RECURSIVE IsUnit(_)
\* r is a pattern all of whose matches consume exactly one character
IsUnit(r) ==
    CASE r.op \in {"set", "nset"} -> TRUE
      [] r.op = "str" -> Len(r.w) = 1
      [] r.op = "alt" -> \A k \in 1..Len(r.ps) : IsUnit(r.ps[k])
      [] r.op = "cat" -> /\ Len(r.ps) >= 1
                         /\ IsUnit(r.ps[1])
                         /\ \A k \in 2..Len(r.ps) : r.ps[k].op = "nla"
      [] OTHER -> FALSE

RECURSIVE M(_, _, _)
RECURSIVE TryAlt(_, _, _, _, _)
RECURSIVE TryEnds(_, _, _, _)

\* M(rs, s, i): the patterns of the list rs matched one after the other from
\* offset i of s, depth first: the offset where the first successful path
\* ends, or -1 when every path fails.
M(rs, s, i) ==
    IF rs = <<>> THEN i
    ELSE LET r == Head(rs)
             rest == Tail(rs)
         IN CASE r.op = "set"  -> IF i < Len(s) /\ s[i + 1] \in r.s
                                  THEN M(rest, s, i + 1) ELSE -1
              [] r.op = "nset" -> IF i < Len(s) /\ s[i + 1] \notin r.s
                                  THEN M(rest, s, i + 1) ELSE -1
              [] r.op = "str"  -> IF i + Len(r.w) <= Len(s)
                                     /\ SubSeq(s, i + 1, i + Len(r.w)) = r.w
                                  THEN M(rest, s, i + Len(r.w)) ELSE -1
              [] r.op = "cat"  -> M(r.ps \o rest, s, i)
              [] r.op = "alt"  -> TryAlt(r.ps, 1, rest, s, i)
              [] r.op = "star" ->
                    IF IsUnit(r.r)
                    THEN \* the greedy run of one-character matches, then shorter ones
                         LET n == CHOOSE m \in 0..(Len(s) - i) :
                                    /\ \A k \in 1..m : M(<<r.r>>, s, i + k - 1) # -1
                                    /\ (m = Len(s) - i \/ M(<<r.r>>, s, i + m) = -1)
                         IN  TryEnds(rest, s, i + n, i)
                    ELSE LET more == M(<<r.r, [op |-> "again", r |-> r.r, at |-> i]>> \o rest,
                                       s, i)
                         IN  IF more # -1 THEN more ELSE M(rest, s, i)
              [] r.op = "again" -> IF i = r.at THEN -1
                                   ELSE M(<<[op |-> "star", r |-> r.r]>> \o rest, s, i)
              [] r.op = "nla"  -> IF M(<<r.r>>, s, i) = -1 THEN M(rest, s, i) ELSE -1

TryAlt(ps, k, rest, s, i) ==
    IF k > Len(ps) THEN -1
    ELSE LET m == M(<<ps[k]>> \o rest, s, i)
         IN  IF m # -1 THEN m ELSE TryAlt(ps, k + 1, rest, s, i)

TryEnds(rest, s, e, lo) ==
    IF e < lo THEN -1
    ELSE LET m == M(rest, s, e)
         IN  IF m # -1 THEN m ELSE TryEnds(rest, s, e - 1, lo)

\* compiled_regex.match(slice): the length of the match, or -1 for None
MatchLen(re, slice) == M(<<re>>, slice, 0)

-----------------------------------------------------------------------------
(* Actions of a transition.                                                *)

StartToken(name)  == [a |-> "StartToken", name |-> name]
StopToken         == [a |-> "StopToken", name |-> ""]
StopTokenOf(name) == [a |-> "StopToken", name |-> name]
Record            == [a |-> "Record", value |-> <<>>]
Shift             == [a |-> "Shift"]
Push(state)       == [a |-> "Push", state |-> state]
Pop               == [a |-> "Pop"]
Error(message)    == [a |-> "Error", message |-> message]

Transition(re, action_list) == [re |-> re, actions |-> action_list]

-----------------------------------------------------------------------------
(* The Javascript state table (__JS_STATES).                               *)

IdentStart == Lower \cup Upper \cup {"_", "$"}
IdentChar  == IdentStart \cup Digit

JsKeywordWords ==
    << <<"b","r","e","a","k">>, <<"c","a","t","c","h">>, <<"c","o","n","s","t">>,
       <<"c","o","n","t","i","n","u","e">>, <<"d","e","b","u","g","g","e","r">>,
       <<"d","e","f","a","u","l","t">>, <<"d","e","l","e","t","e">>, <<"d","o">>,
       <<"e","l","s","e">>, <<"e","n","u","m">>, <<"f","a","l","s","e">>,
       <<"f","i","n","a","l","l","y">>, <<"f","o","r">>,
       <<"f","u","n","c","t","i","o","n">>, <<"c","a","s","e">>, <<"i","f">>,
       <<"i","n">>, <<"i","n","s","t","a","n","c","e","o","f">>, <<"n","e","w">>,
       <<"n","u","l","l">>, <<"r","e","t","u","r","n">>, <<"s","w","i","t","c","h">>,
       <<"t","h","i","s">>, <<"t","h","r","o","w">>, <<"t","r","u","e">>,
       <<"t","r","y">>, <<"t","y","p","e","o","f">>, <<"v","a","r">>,
       <<"v","o","i","d">>, <<"w","h","i","l","e">>, <<"w","i","t","h">> >>

JsKeywordRe ==
    Cat(<<Alt([k \in 1..Len(JsKeywordWords) |-> Str(JsKeywordWords[k])]), NLA(Set(IdentChar))>>)

JsOperatorChars ==
    {";", ",", "=", "?", ":", "|", "^", "&", "!", "<", ">", "*", "%", "~", ".", "[", "(", "+", "-"}

JsRoot ==
    << Transition(Cat(<<Star(WS), Ch("{"), Star(WS)>>), <<StartToken("js-scope"), Shift>>),
       Transition(Cat(<<Star(WS), Ch("}"), Star(WS)>>), <<StopTokenOf("js-scope"), Shift>>),
       Transition(Str(<<"/", "*">>), <<Push("multiline-comment"), Shift>>),
       Transition(Str(<<"/", "/">>), <<Push("singleline-comment"), Shift>>),
       Transition(Ch("\""), <<Push("double-quoted-string"),
                              StartToken("js-double-quoted-string"), Record, Shift>>),
       Transition(Ch("'"), <<Push("single-quoted-string"),
                             StartToken("js-single-quoted-string"), Record, Shift>>),
       Transition(JsKeywordRe, <<StartToken("js-keyword"), Record, Shift, StopToken>>),
       Transition(Cat(<<Star(WS), Set(JsOperatorChars), Star(WS)>>),
                  <<StartToken("js-operator"), Record, Shift, StopToken>>),
       Transition(Cat(<<Star(WS), Set({")", "]"}), Star(WS)>>),
                  <<StartToken("js-operator"), Record, Shift, StopToken, Push("after-varname")>>),
       Transition(Cat(<<Set(IdentStart), Star(Set(IdentChar))>>),
                  <<StartToken("js-varname"), Record, Shift, StopToken, Push("after-varname")>>),
       Transition(Plus(Set(Digit \cup {"."})),
                  <<StartToken("js-number"), Record, Shift, StopToken, Push("after-varname")>>),
       Transition(Plus(WS), <<StartToken("js-whitespace"), Record, Shift, StopToken>>),
       Transition(Cat(<<Star(WS), Ch("/"), NLA(Set({"/", "*"}))>>),
                  <<StartToken("js-regex-object"), Record, Shift, Push("regex-object")>>),
       Transition(AnyChar, <<Error("Error in parser #1")>>) >>

JsDoubleQuotedString ==
    << Transition(Ch("\""), <<Record, Pop, Shift, StopToken>>),
       Transition(Cat(<<Ch("\\"), Dot>>), <<Record, Shift>>),
       Transition(Plus(NSet({"\"", "\\"})), <<Record, Shift>>),
       Transition(AnyChar, <<Error("Error in parser #2")>>) >>

JsSingleQuotedString ==
    << Transition(Ch("'"), <<Record, Pop, Shift, StopToken>>),
       Transition(Cat(<<Ch("\\"), Dot>>), <<Record, Shift>>),
       Transition(Plus(NSet({"'", "\\"})), <<Record, Shift>>),
       Transition(AnyChar, <<Error("Error in parser #3")>>) >>

JsMultilineComment ==
    << Transition(Str(<<"*", "/">>), <<Shift, Pop>>),
       Transition(Plus(Alt(<<Cat(<<Ch("*"), NLA(Ch("/"))>>), NSet({"*"})>>)), <<Shift>>),
       Transition(Plus(Cat(<<Ch("*"), NLA(Ch("/"))>>)), <<Shift>>),
       Transition(AnyChar, <<Error("Error in parser #4")>>) >>

JsSinglelineComment ==
    << Transition(Ch("\n"), <<Shift, Pop>>),
       Transition(Plus(NSet({"\n"})), <<Shift>>),
       Transition(AnyChar, <<Error("Error in parser #5")>>) >>

JsAfterVarname ==
    << Transition(Cat(<<Star(WS), Ch("/"), NLA(Set({"/", "*"})), Star(WS)>>),
                  <<StartToken("js-operator"), Record, Shift, StopToken>>),
       Transition(Str(<<"/", "*">>), <<Push("multiline-comment"), Shift>>),
       Transition(Cat(<<Str(<<"/", "/">>), Star(NSet({"\n"}))>>), <<Shift>>),
       Transition(AnyChar, <<Pop>>),
       Transition(AnyChar, <<Error("Error in parser #6")>>) >>

JsRegexObject ==
    << Transition(Cat(<<Ch("\\"), Dot>>), <<Record, Shift>>),
       Transition(Plus(NSet({"/", "\\"})), <<Record, Shift>>),
       Transition(Cat(<<Ch("/"), Opt(Set(Lower))>>), <<Record, Shift, StopToken, Pop>>),
       Transition(AnyChar, <<Error("Error in parser #7")>>) >>

JS_STATES ==
    [root |-> JsRoot] @@
    ("double-quoted-string" :> JsDoubleQuotedString) @@
    ("single-quoted-string" :> JsSingleQuotedString) @@
    ("multiline-comment" :> JsMultilineComment) @@
    ("singleline-comment" :> JsSinglelineComment) @@
    ("after-varname" :> JsAfterVarname) @@
    ("regex-object" :> JsRegexObject)

-----------------------------------------------------------------------------
(* The Django template state table (__DJANGO_STATES).                      *)

DjangoTagElementRe ==
    Plus(Alt(<<Plus(NSet({"'", "\""} \cup Whitespace \cup {"%", "}"})),
               Cat(<<Ch("\""), Star(NSet({"\""})), Ch("\"")>>),
               Cat(<<Ch("'"), Star(NSet({"'"})), Ch("'")>>)>>))

EndCommentRe ==
    Cat(<<Str(<<"{", "%">>), Star(WS), Str(<<"e","n","d","c","o","m","m","e","n","t">>),
          Star(WS), Str(<<"%", "}">>)>>)

DjangoRoot ==
    << Transition(Str(<<"{", "#">>),
                  <<StartToken("django-comment"), Shift, Push("django-comment")>>),
       Transition(Cat(<<Str(<<"{", "%">>), Star(WS), Str(<<"c","o","m","m","e","n","t">>),
                        Star(WS), Str(<<"%", "}">>)>>),
                  <<StartToken("django-multiline-comment"), Shift,
                    Push("django-multiline-comment")>>),
       Transition(Cat(<<Str(<<"{", "%">>), Star(WS)>>),
                  <<StartToken("django-tag"), Shift, Push("django-tag")>>),
       Transition(Cat(<<Str(<<"{", "{">>), Star(WS)>>),
                  <<StartToken("django-variable"), Shift, Push("django-variable")>>),
       Transition(Plus(Alt(<<NSet({"{"}), Ch("%"),
                             Cat(<<Ch("{"), NLA(Set({"%", "#", "{"}))>>)>>)),
                  <<StartToken("content"), Record, Shift, StopToken>>),
       Transition(AnyChar, <<Error("Error in parser")>>) >>

DjangoComment ==
    << Transition(Str(<<"#", "}">>), <<StopToken, Shift, Pop>>),
       Transition(Plus(NSet({"\n", "#"})), <<Record, Shift>>),
       Transition(Ch("\n"), <<Error("No newlines allowed in django single line comment")>>),
       Transition(Cat(<<Ch("#"), NLA(Ch("}"))>>), <<Record, Shift>>),
       Transition(AnyChar, <<Error("Error in parser: comment")>>) >>

DjangoMultilineComment ==
    << Transition(EndCommentRe, <<StopToken, Shift, Pop>>),
       Transition(Str(<<"{", "#">>),
                  <<StartToken("django-comment"), Shift, Push("django-comment")>>),
       Transition(Plus(NSet({"{"})), <<Record, Shift>>),
       Transition(Cat(<<Ch("{"), NLA(Alt(<<EndCommentRe, Ch("#")>>))>>), <<Record, Shift>>) >>

DjangoTag ==
    << Transition(DjangoTagElementRe,
                  <<StartToken("django-tag-element"), Record, Shift, StopToken>>),
       Transition(Cat(<<Star(WS), Str(<<"%", "}">>)>>), <<StopToken, Shift, Pop>>),
       Transition(Plus(WS), <<Shift>>),
       Transition(AnyChar, <<Error("Error in parser: django-tag")>>) >>

DjangoVariable ==
    << Transition(DjangoTagElementRe,
                  <<StartToken("django-variable-part"), Record, Shift, StopToken>>),
       Transition(Cat(<<Star(WS), Str(<<"}", "}">>)>>), <<StopToken, Shift, Pop>>),
       Transition(Plus(WS), <<Shift>>),
       Transition(AnyChar, <<Error("Error in parser: django-variable")>>) >>

DJANGO_STATES ==
    [root |-> DjangoRoot] @@
    ("django-comment" :> DjangoComment) @@
    ("django-multiline-comment" :> DjangoMultilineComment) @@
    ("django-tag" :> DjangoTag) @@
    ("django-variable" :> DjangoVariable)

-----------------------------------------------------------------------------
(* The calculator state table of the scenario: a run of digits is a Number *)
(* token, '+' or '-' an Operator token.                                    *)

CALC_STATES ==
    [root |->
      << Transition(Plus(Set(Digit)), <<StartToken("Number"), Record, Shift, StopToken>>),
         Transition(Set({"+", "-"}), <<StartToken("Operator"), Record, Shift, StopToken>>),
         Transition(AnyChar, <<Error("Error in parser")>>) >>]

\* A table whose first rule shifts twice in one action list.
PAIR_STATES ==
    [root |->
      << Transition(Str(<<"a", "b">>), <<StartToken("pair"), Record, Shift, Shift, StopToken>>),
         Transition(AnyChar, <<StartToken("char"), Record, Shift, StopToken>>) >>]

StateTable(name) ==
    CASE name = "js" -> JS_STATES
      [] name = "pair" -> PAIR_STATES
      [] name = "django" -> DJANGO_STATES
      [] name = "calc" -> CALC_STATES

-----------------------------------------------------------------------------
(* Tokens, exceptions and the list operations of Python that the engine    *)
(* uses.                                                                   *)

Path == "template"

Token(name, ln, col, path) ==
    [name |-> name, line |-> ln, column |-> col, path |-> path, children |-> <<>>]

TextChild(text) == [t |-> "text", text |-> text, id |-> 0]
NodeChild(id)   == [t |-> "node", text |-> <<>>, id |-> id]

NoException == [type |-> "none", line |-> 0, column |-> 0, path |-> "",
                message |-> "", name |-> "", near |-> <<>>]

CompileException(ln, col, path, message, name, near) ==
    [type |-> "CompileException", line |-> ln, column |-> col, path |-> path,
     message |-> message, name |-> name, near |-> near]

\* list[-1] or list.pop() on an empty list
IndexError == [type |-> "IndexError", line |-> 0, column |-> 0, path |-> "",
               message |-> "", name |-> "", near |-> <<>>]

\* node.append(child)
AppendChild(tree, id, child) ==
    [tree EXCEPT ![id].children = Append(@, child)]

Min(a, b) == IF a < b THEN a ELSE b
Max(a, b) == IF a > b THEN a ELSE b

\* s[a:b] of Python, a and b possibly negative or past the end
PySlice(s, a, b) ==
    LET n  == Len(s)
        lo == IF a < 0 THEN Max(a + n, 0) ELSE Min(a, n)
        hi == IF b < 0 THEN Max(b + n, 0) ELSE Min(b, n)
    IN  IF lo < hi THEN SubSeq(s, lo + 1, hi) ELSE <<>>

\* content.find('\n') repeated: the offset behind the last newline (0 if none)
AfterLastNewline(content) ==
    IF \E k \in 1..Len(content) : content[k] = "\n"
    THEN CHOOSE k \in 1..Len(content) :
            content[k] = "\n" /\ \A j \in (k + 1)..Len(content) : content[j] # "\n"
    ELSE 0

Newlines(content) == Cardinality({k \in 1..Len(content) : content[k] = "\n"})

-----------------------------------------------------------------------------
(* The action interpreter of tokenize (lexer_engine.py, lines 87-126).     *)
(* e is the local state of the call while one action list runs.            *)

\* a Shift that advances by one character whatever the match was
ShiftAdvanceByOne(e) == IF e.count > 0 THEN 1 ELSE 0

\* the advance of a Shift: the length of the match, once per action list
ShiftAdvance(e) == e.count

DoRecord(e, action) ==
    IF e.token_stack = <<>> THEN [e EXCEPT !.raised = IndexError]
    ELSE [e EXCEPT !.nodes = AppendChild(@, Last(e.token_stack),
                        TextChild(IF action.value # <<>> THEN action.value ELSE e.content))]

DoShift(e) ==
    LET adv  == ShiftAdvance(e)
        last == AfterLastNewline(e.content)
    IN  [e EXCEPT !.position = @ + adv,
                  !.count = 0,
                  !.line = @ + Newlines(e.content),
                  !.column = IF last > 0 THEN 1 + (Len(e.content) - last)
                             ELSE @ + Len(e.content),
                  !.content = SubSeq(e.content, last + 1, Len(e.content)),
                  !.shifted = @ + adv,
                  !.cover = [k \in DOMAIN @ |->
                                IF e.position < k /\ k <= e.position + adv
                                THEN @[k] + 1 ELSE @[k]]]

DoPush(e, action) == [e EXCEPT !.state_stack = Append(@, action.state)]

\* a Pop that leaves the state where it is
DoPopNothing(e) == e

DoPop(e) ==
    IF e.state_stack = <<>> THEN [e EXCEPT !.raised = IndexError]
    ELSE [e EXCEPT !.state_stack = Front(@)]

DoStartToken(e, action) ==
    IF e.token_stack = <<>> THEN [e EXCEPT !.raised = IndexError]
    ELSE LET id == Len(e.nodes) + 1
         IN  [e EXCEPT !.nodes = Append(AppendChild(@, Last(e.token_stack), NodeChild(id)),
                                        Token(action.name, e.line, e.column, Path)),
                       !.token_stack = Append(@, id)]

\* a StopToken that pops whatever is open
DoStopTokenUnchecked(e, action) ==
    IF e.token_stack = <<>> THEN [e EXCEPT !.raised = IndexError]
    ELSE [e EXCEPT !.token_stack = Front(@), !.stopped = @ + 1]

DoStopToken(e, action) ==
    IF e.token_stack = <<>> THEN [e EXCEPT !.raised = IndexError]
    ELSE IF action.name # "" /\ e.nodes[Last(e.token_stack)].name # action.name
    THEN [e EXCEPT !.raised = CompileException(e.line, e.column, Path,
                                               "Token mismatch", "", <<>>)]
    ELSE [e EXCEPT !.token_stack = Front(@), !.stopped = @ + 1]

\* the number of characters shown on either side of the read position
SnippetWindow == 20

DoError(e, action) ==
    [e EXCEPT !.raised = CompileException(e.line, e.column, Path, action.message, "",
                                          PySlice(e.string, e.position - SnippetWindow,
                                                  e.position + SnippetWindow))]

DoAction(e, action) ==
    CASE action.a = "Record"     -> DoRecord(e, action)
      [] action.a = "Shift"      -> DoShift(e)
      [] action.a = "Push"       -> DoPush(e, action)
      [] action.a = "Pop"        -> DoPop(e)
      [] action.a = "StartToken" -> DoStartToken(e, action)
      [] action.a = "StopToken"  -> DoStopToken(e, action)
      [] action.a = "Error"      -> DoError(e, action)

RECURSIVE ExecuteActions(_, _, _)
ExecuteActions(e, action_list, k) ==
    IF k > Len(action_list) \/ e.raised.type # "none" THEN e
    ELSE ExecuteActions(DoAction(e, action_list[k]), action_list, k + 1)

-----------------------------------------------------------------------------
(* tokenize: one step per input node taken and per rule lookup.            *)

\* string[position:]
Remaining(str, pos) == SubSeq(str, pos + 1, Len(str))

Matches(transitions, k, slice) == MatchLen(transitions[k].re, slice) # -1

RECURSIVE FirstMatchFrom(_, _, _)
FirstMatchFrom(transitions, slice, k) ==
    IF k > Len(transitions) THEN 0
    ELSE IF Matches(transitions, k, slice) THEN k
    ELSE FirstMatchFrom(transitions, slice, k + 1)

RECURSIVE LastMatchFrom(_, _, _)
LastMatchFrom(transitions, slice, k) ==
    IF k < 1 THEN 0
    ELSE IF Matches(transitions, k, slice) THEN k
    ELSE LastMatchFrom(transitions, slice, k - 1)

\* a rule loop without its `break`: the last matching rule wins
LastMatch(transitions, slice) == LastMatchFrom(transitions, slice, Len(transitions))

\* the `for compiled_regex, action_list in ...transitions()` loop with its
\* `break`: the index of the rule whose actions run, 0 when the loop ends
\* without a match
FirstMatch(transitions, slice) == FirstMatchFrom(transitions, slice, 1)

\* a run loop that stops one character early
RunGoesOnShort(pos, str) == pos < Len(str) - 1

\* `while position < len(string)`
RunGoesOn(pos, str) == pos < Len(str)

\* the bottom of the stack instead of its top
UnterminatedBottom(stack) == Head(stack)

\* the node named by the "not terminated" error
Unterminated(stack) == Last(stack)

NoState == [position |-> 0]

NoLookup == [state |-> "", at |-> 0, slice |-> <<>>, rule |-> 0, count |-> 0]

TextOf(ws) == [k \in 1..Len(ws) |-> TextChild(ws[k])]

\* isinstance(current_input_node, basestring)
IsText(node) == node.t = "text"

\* lines 66-69: the number of consecutive text fragments from input node k on
RECURSIVE TextRun(_, _)
TextRun(input, k) ==
    IF k > Len(input) \/ ~IsText(input[k]) THEN k - 1 ELSE TextRun(input, k + 1)

\* lines 54-72: pop the next input node; consecutive text fragments are
\* concatenated into one run
TakeInputNode ==
    /\ phase = "tokenize"
    /\ pc = "nodes"
    /\ input_nodes # <<>>
    /\ IsText(input_nodes[1])
    /\ LET n   == TextRun(input_nodes, 1)
           run == Flatten([k \in 1..n |-> input_nodes[k].text])
       IN  /\ string' = run
           /\ cover' = [k \in 1..Len(run) |-> 0]
           /\ pc' = IF RunGoesOn(0, run) THEN "lex" ELSE "nodes"
           /\ input_nodes' = SubSeq(input_nodes, n + 1, Len(input_nodes))
    /\ position' = 0
    /\ shifted' = 0
    /\ UNCHANGED <<phase, states, line, column, state_stack, token_stack, nodes,
                   raised, stopped, fired, stalled, calls>>
    /\ UNCHANGED <<nestVars, minVars, batchVars>>

\* lines 74-128: one pass of the rule loop that finds a match
ApplyTransition ==
    /\ phase = "tokenize"
    /\ pc = "lex"
    /\ IF state_stack = <<>>
       THEN /\ raised' = IndexError
            /\ pc' = "raised"
            /\ UNCHANGED <<position, line, column, state_stack, token_stack, nodes,
                           stopped, shifted, cover, fired>>
       ELSE LET transitions == StateTable(states)[Last(state_stack)]
                slice == Remaining(string, position)
            IN  \E k \in {FirstMatch(transitions, slice)} :
                \E count \in {IF k = 0 THEN -1 ELSE MatchLen(transitions[k].re, slice)} :
                \E e \in {IF k = 0 THEN NoState
                          ELSE ExecuteActions(
                                 [string |-> string, position |-> position, count |-> count,
                                  content |-> SubSeq(string, position + 1, position + count),
                                  line |-> line, column |-> column,
                                  state_stack |-> state_stack, token_stack |-> token_stack,
                                  nodes |-> nodes, raised |-> NoException,
                                  stopped |-> stopped, shifted |-> shifted,
                                  cover |-> cover],
                                 transitions[k].actions, 1)} :
                /\ k # 0
                /\ position' = e.position
                /\ line' = e.line
                /\ column' = e.column
                /\ state_stack' = e.state_stack
                /\ token_stack' = e.token_stack
                /\ nodes' = e.nodes
                /\ raised' = e.raised
                /\ stopped' = e.stopped
                /\ shifted' = e.shifted
                /\ cover' = e.cover
                /\ fired' = [state |-> Last(state_stack), at |-> position,
                             slice |-> slice, rule |-> k, count |-> count]
                /\ pc' = IF e.raised.type # "none" THEN "raised"
                         ELSE IF RunGoesOn(e.position, string) THEN "lex" ELSE "nodes"
    /\ UNCHANGED <<phase, states, input_nodes, string, stalled, calls>>
    /\ UNCHANGED <<nestVars, minVars, batchVars>>

\* lines 74-75 when no rule of the active state matches: the for loop ends
\* without `break` and the while loop tests the same position again
NoTransition ==
    /\ phase = "tokenize"
    /\ pc = "lex"
    /\ state_stack # <<>>
    /\ FirstMatch(StateTable(states)[Last(state_stack)], Remaining(string, position)) = 0
    /\ stalled' = TRUE
    /\ UNCHANGED <<phase, states, input_nodes, string, position, line, column,
                   state_stack, token_stack, nodes, pc, raised, stopped, shifted, cover,
                   fired, calls>>
    /\ UNCHANGED <<nestVars, minVars, batchVars>>

\* lines 145-147: the balance check of the top-level call
EndOfInput ==
    /\ phase = "tokenize"
    /\ pc = "nodes"
    /\ input_nodes = <<>>
    /\ calls = <<>>
    /\ IF token_stack # <<1>>
       THEN /\ pc' = "raised"
            /\ raised' = IF token_stack = <<>> THEN IndexError
                         ELSE LET top == nodes[Unterminated(token_stack)]
                              IN  CompileException(top.line, top.column, top.path,
                                                   "not terminated", top.name, <<>>)
       ELSE /\ pc' = "done"
            /\ UNCHANGED raised
    /\ UNCHANGED <<phase, states, input_nodes, string, position, line, column,
                   state_stack, token_stack, nodes, stopped, shifted, cover, fired,
                   stalled, calls>>
    /\ UNCHANGED <<nestVars, minVars, batchVars>>

-----------------------------------------------------------------------------
(* The inputs of tokenize.                                                 *)

JsAlphabet == {"a", "/", "*", "{", "}", "\"", "\n", " ", ".", "1"}
CalcAlphabet == {"1", "2", "3", "+", "-", "x"}
PairAlphabet == {"a", "b", "\n"}
DjangoWords ==
    { <<"{","%","c","o","m","m","e","n","t","%","}">>,
      <<"{","%","e","n","d","c","o","m","m","e","n","t","%","}">>,
      <<"{">>, <<"x">>, <<"{","#">>, <<"#","}">>, <<"{","%">>, <<"%","}">>, <<"\n">> }

\* texts longer than the window of an error message: a number of as many
\* digits as the window is wide, with a character that is an error before
\* it or behind it
LongTexts ==
    LET digits == [k \in 1..SnippetWindow |-> "1"]
    IN  {<<"x">> \o digits, digits \o <<"x">>}

\* JavaScript texts with a '/' behind a name, a number, a closing bracket or
\* an operator, with white space, a comment or a division in between
SlashTexts ==
    {first \o between \o <<"/">> \o rest :
        first \in {<<"a">>, <<"1">>, <<")">>, <<".">>},
        between \in {<<>>, <<" ">>, <<"/", "*", "*", "/">>, <<" ", "/", "*", "*", "/">>,
                     <<"/", "*", "*", "/", " ">>, <<"/", " ">>},
        rest \in {<<>>, <<"1">>, <<"a", "/">>}}

\* template texts with a variable: {{ ... }} and what stands behind it
VariableTexts ==
    {<<"{", "{">> \o inner \o <<"}", "}">> \o rest :
        inner \in {<<>>, <<"x">>, <<" ", "x", " ">>, <<"x", " ", "x">>, <<"}">>, <<"%">>},
        rest \in {<<>>, <<"x">>, <<"{", "%", "x", "%", "}">>, <<"{", "{", "x">>}}

Texts(table) ==
    CASE table = "js" -> SeqsUpTo(JsAlphabet, MaxJsLen) \cup SlashTexts
      [] table = "calc" -> SeqsUpTo(CalcAlphabet, MaxCalcLen) \cup LongTexts
      [] table = "pair" -> SeqsUpTo(PairAlphabet, MaxPairLen)
      [] table = "django" -> {Flatten(ws) : ws \in SeqsUpTo(DjangoWords, MaxDjangoWords)}
                             \cup VariableTexts

\* the children of the root: nothing, the text as one fragment, or the text
\* cut in two fragments
Fragments(text) ==
    {<<>>} \cup {<<text>>}
           \cup {<<SubSeq(text, 1, k), SubSeq(text, k + 1, Len(text))>> : k \in 1..(Len(text) - 1)}

\* the variables of the JavaScript passes while they are not running
MinifyIdle ==
    /\ js_tokens = <<>>
    /\ symbol_table = <<>>
    /\ link_to = <<>>
    /\ varname = <<>>
    /\ global_variable_names = <<>>
    /\ names_to_avoid = {}
    /\ new_names = <<>>
    /\ child_index = 0
    /\ semi_required = FALSE

\* the variables of tokenize while it is not running
TokenizeIdle ==
    /\ states = ""
    /\ input_nodes = <<>>
    /\ string = <<>>
    /\ position = 0
    /\ line = 1
    /\ column = 1
    /\ state_stack = <<>>
    /\ token_stack = <<>>
    /\ nodes = <<>>
    /\ stopped = 0
    /\ shifted = 0
    /\ cover = <<>>
    /\ fired = NoLookup
    /\ stalled = FALSE
    /\ calls = <<>>

\* the variables of the compile_templates command while it is not running
BatchIdle ==
    /\ queue = <<>>
    /\ queue_index = 0
    /\ written = {}
    /\ errors = <<>>

\* the variables of nest_block_level_elements while it is not running
NestIdle ==
    /\ flat = <<>>
    /\ tree_children = <<>>
    /\ cursor = 0
    /\ moving_to_node = <<>>
    /\ list_index = 0
    /\ tags_stack = <<>>
    /\ class_of = <<>>
    /\ child_lists = <<>>
    /\ processed = <<>>

TokenizeInit ==
    /\ phase = "tokenize"
    /\ NestIdle
    /\ MinifyIdle
    /\ BatchIdle
    /\ states \in {"js", "django", "calc", "pair"}
    /\ \E text \in Texts(states) :
          /\ text # <<>>
          /\ input_nodes \in {TextOf(f) : f \in Fragments(text)}
    /\ string = <<>>
    /\ position = 0
    /\ line = 1
    /\ column = 1
    /\ state_stack = <<"root">>
    /\ token_stack = <<1>>
    /\ nodes = <<Token("root", 1, 1, Path)>>
    /\ pc = "nodes"
    /\ raised = NoException
    /\ stopped = 0
    /\ shifted = 0
    /\ cover = <<>>
    /\ fired = NoLookup
    /\ stalled = FALSE
    /\ calls = <<>>

vars == <<phase, pc, raised, tokVars, nestVars, minVars, batchVars>>

Init == TokenizeInit

Next ==
    \/ TakeInputNode
    \/ ApplyTransition
    \/ NoTransition
    \/ EndOfInput

Spec == Init /\ [][Next]_vars

-----------------------------------------------------------------------------
(* tokenize on a tree whose children are nodes as well as text             *)
(* (lexer_engine.py, lines 129-143): the nested calls.                     *)

\* the classes compile_javascript passes (js_processor.py, line 627), and a
\* class that is in neither list
ClassesToReplaceByParsedContent == {"HtmlContent"}
ClassesToEnter == {"DjangoContainer"}
OtherClasses == {"DjangoTag"}

\* a child of the input tree that is a node
InputNode(class, children) ==
    [t |-> "input", class |-> class, line |-> 1, column |-> 1, children |-> children]

IsInstance(node, classes) == ~IsText(node) /\ node.class \in classes

\* what a call of tokenize goes on with when the nested call it made
\* returns: its locals, and the stacks it did not hand over.  A stack that
\* was handed over is the same list in both calls; `_state_stack or [...]`
\* and `_token_stack or [tree]` hand over a list only when it is not empty.
Frame(tree, shares_tokens, append) ==
    [input_nodes |-> Tail(input_nodes), line |-> line, column |-> column,
     state_stack |-> state_stack, token_stack |-> token_stack,
     tree |-> tree, shares_states |-> state_stack # <<>>,
     shares_tokens |-> shares_tokens, append |-> append]

\* lines 36-51 of the nested call: its stacks, input nodes and position
EnterCall(child, tree, shares_tokens, append) ==
    /\ calls' = Append(calls, Frame(tree, shares_tokens, append))
    /\ nodes' = Append(nodes, Token(child.class, child.line, child.column, Path))
    /\ input_nodes' = child.children
    /\ line' = child.line
    /\ column' = child.column
    /\ state_stack' = IF state_stack = <<>> THEN <<"root">> ELSE state_stack
    /\ token_stack' = IF shares_tokens THEN token_stack ELSE <<tree>>
    /\ UNCHANGED <<phase, states, string, position, pc, raised, stopped, shifted, cover,
                   fired, stalled>>
    /\ UNCHANGED <<nestVars, minVars, batchVars>>

\* lines 132-134: a node of a class to replace by its parsed content
ReplaceChild ==
    /\ phase = "tokenize"
    /\ pc = "nodes"
    /\ input_nodes # <<>>
    /\ IsInstance(input_nodes[1], ClassesToReplaceByParsedContent)
    /\ EnterCall(input_nodes[1], Len(nodes) + 1, token_stack # <<>>, FALSE)

\* lines 137-138: a node of a class to enter
EnterChild ==
    /\ phase = "tokenize"
    /\ pc = "nodes"
    /\ input_nodes # <<>>
    /\ ~IsInstance(input_nodes[1], ClassesToReplaceByParsedContent)
    /\ IsInstance(input_nodes[1], ClassesToEnter)
    /\ EnterCall(input_nodes[1], Len(nodes) + 1, FALSE, TRUE)

\* lines 141-143: a node of any other class
CopyChild ==
    /\ phase = "tokenize"
    /\ pc = "nodes"
    /\ input_nodes # <<>>
    /\ ~IsText(input_nodes[1])
    /\ ~IsInstance(input_nodes[1], ClassesToReplaceByParsedContent)
    /\ ~IsInstance(input_nodes[1], ClassesToEnter)
    /\ LET child == input_nodes[1]
           id    == Len(nodes) + 1
       IN  IF token_stack = <<>>
           THEN /\ raised' = IndexError
                /\ pc' = "raised"
                /\ UNCHANGED <<input_nodes, nodes>>
           ELSE /\ nodes' = Append(AppendChild(nodes, Last(token_stack), NodeChild(id)),
                                   Token(child.class, child.line, child.column, Path))
                /\ input_nodes' = Tail(input_nodes)
                /\ UNCHANGED <<pc, raised>>
    /\ UNCHANGED <<phase, states, string, position, line, column, state_stack,
                   token_stack, stopped, shifted, cover, fired, stalled, calls>>
    /\ UNCHANGED <<nestVars, minVars, batchVars>>

\* the end of a nested call (line 145 with _root false: no balance check),
\* and line 139 for a node that was entered
ReturnFromChild ==
    /\ phase = "tokenize"
    /\ pc = "nodes"
    /\ input_nodes = <<>>
    /\ calls # <<>>
    /\ LET frame == Last(calls)
           outer == IF frame.shares_tokens THEN token_stack ELSE frame.token_stack
       IN  /\ calls' = Front(calls)
           /\ input_nodes' = frame.input_nodes
           /\ line' = frame.line
           /\ column' = frame.column
           /\ state_stack' = IF frame.shares_states THEN state_stack ELSE frame.state_stack
           /\ token_stack' = outer
           /\ IF ~frame.append
              THEN UNCHANGED <<nodes, pc, raised>>
              ELSE IF outer = <<>>
              THEN raised' = IndexError /\ pc' = "raised" /\ UNCHANGED nodes
              ELSE /\ nodes' = AppendChild(nodes, Last(outer), NodeChild(frame.tree))
                   /\ UNCHANGED <<pc, raised>>
    /\ UNCHANGED <<phase, states, string, position, stopped, shifted, cover, fired,
                   stalled>>
    /\ UNCHANGED <<nestVars, minVars, batchVars>>

\* the size of a list of input nodes: its nodes and text fragments
RECURSIVE Weight(_)
Weight(forest) ==
    IF forest = <<>> THEN 0
    ELSE (IF IsText(Head(forest)) THEN 1 ELSE 1 + Weight(Head(forest).children))
         + Weight(Tail(forest))

\* the text fragments and the nodes without children
Leaves(table) ==
    {TextChild(text) :
        text \in (IF table = "js" THEN {<<"a">>, <<"\"">>, <<"{">>}
                  ELSE {<<"{","%","c","o","m","m","e","n","t","%","}">>, <<"{">>,
                        <<"{","%","e","n","d","c","o","m","m","e","n","t","%","}">>})}
    \cup {InputNode(class, <<>>) : class \in OtherClasses}

\* the lists of input nodes of size at most n
RECURSIVE Forests(_, _)
Forests(table, n) ==
    {<<>>}
    \cup (IF n < 1 THEN {}
          ELSE UNION {{<<leaf>> \o rest : rest \in Forests(table, n - 1)} :
                        leaf \in Leaves(table)}
               \cup UNION {UNION {{<<InputNode(class, children)>> \o rest :
                                      rest \in Forests(table, n - 1 - Weight(children))} :
                                  class \in ClassesToReplaceByParsedContent \cup ClassesToEnter} :
                           children \in Forests(table, n - 1)})

TreeInit ==
    /\ phase = "tokenize"
    /\ NestIdle
    /\ MinifyIdle
    /\ BatchIdle
    /\ states \in {"js", "django"}
    /\ input_nodes \in Forests(states, IF states = "js" THEN MaxTreeSize ELSE MaxTreeSize - 1)
    /\ string = <<>>
    /\ position = 0
    /\ line = 1
    /\ column = 1
    /\ state_stack = <<"root">>
    /\ token_stack = <<1>>
    /\ nodes = <<Token("root", 1, 1, Path)>>
    /\ pc = "nodes"
    /\ raised = NoException
    /\ stopped = 0
    /\ shifted = 0
    /\ cover = <<>>
    /\ fired = NoLookup
    /\ stalled = FALSE
    /\ calls = <<>>

TreeNext ==
    \/ TakeInputNode
    \/ ApplyTransition
    \/ NoTransition
    \/ EndOfInput
    \/ ReplaceChild
    \/ EnterChild
    \/ CopyChild
    \/ ReturnFromChild

TreeSpec == TreeInit /\ [][TreeNext]_vars

-----------------------------------------------------------------------------
(* The compile_templates command: Command.handle compiles the templates of *)
(* its queue one after the other through Command._compile_template.  The   *)
(* call of compile reaches parse, whose first stage is tokenize with the   *)
(* Django table on a root whose only child is the template's code; the     *)
(* stages of the pipeline after it are left out.  The loop over the rules  *)
(* of tokenize that finds no rule never leaves tokenize: in the model no   *)
(* step follows NoTransition, in the program the loop spins.               *)

\* the templates of a batch: one that compiles, one whose tag is not
\* terminated, one with a newline in a single line comment, and one whose
\* multiline comment holds '{{%endcomment%}', which no rule matches
TemplateCodes ==
    { <<"x">>,
      <<"{","%">>,
      <<"{","#","\n">>,
      <<"{","%","c","o","m","m","e","n","t","%","}">> \o <<"{">>
          \o <<"{","%","e","n","d","c","o","m","m","e","n","t","%","}">> }

\* compile(code, loader, path) of template_preprocessor.core: it runs the
\* pipeline of the core on the code, which starts with parse (lines 885-889
\* of django_processor.py): the root's only child is the code
compile(code) == <<TextChild(code)>>

\* lines 81-89 and 94-100 of compile_templates.py: the next template of the
\* queue is read and handed to compile, which starts tokenize on it
CompileTemplate ==
    /\ phase = "tokenize"
    /\ queue # <<>>
    /\ pc = "queue"
    /\ queue_index <= Len(queue)
    /\ states' = "django"
    /\ input_nodes' = compile(queue[queue_index])
    /\ string' = <<>>
    /\ position' = 0
    /\ line' = 1
    /\ column' = 1
    /\ state_stack' = <<"root">>
    /\ token_stack' = <<1>>
    /\ nodes' = <<Token("root", 1, 1, Path)>>
    /\ stopped' = 0
    /\ shifted' = 0
    /\ cover' = <<>>
    /\ fired' = NoLookup
    /\ stalled' = FALSE
    /\ calls' = <<>>
    /\ pc' = "nodes"
    /\ raised' = NoException
    /\ UNCHANGED <<phase, nestVars, minVars, batchVars>>

\* lines 100-104: compile returned, the output file is written
WriteOutput ==
    /\ phase = "tokenize"
    /\ queue # <<>>
    /\ pc = "done"
    /\ written' = written \cup {queue_index}
    /\ queue_index' = queue_index + 1
    /\ pc' = "queue"
    /\ UNCHANGED <<phase, raised, tokVars, nestVars, minVars, queue, errors>>

\* lines 106-107 and 29-31: a CompileException is recorded by print_error
PrintError ==
    /\ phase = "tokenize"
    /\ queue # <<>>
    /\ pc = "raised"
    /\ raised.type = "CompileException"
    /\ errors' = Append(errors, [template |-> queue_index, error |-> raised])
    /\ queue_index' = queue_index + 1
    /\ pc' = "queue"
    /\ UNCHANGED <<phase, raised, tokVars, nestVars, minVars, queue, written>>

\* lines 109-111: the loader did not find a template that compile asked
\* for; the template is skipped with a warning at most
TemplateDoesNotExist ==
    /\ phase = "tokenize"
    /\ queue # <<>>
    /\ pc = "done"
    /\ queue_index' = queue_index + 1
    /\ pc' = "queue"
    /\ UNCHANGED <<phase, raised, tokVars, nestVars, minVars, queue, written, errors>>

\* lines 81 and 92: the loop is over
EndOfQueue ==
    /\ phase = "tokenize"
    /\ queue # <<>>
    /\ pc = "queue"
    /\ queue_index > Len(queue)
    /\ pc' = "processed"
    /\ UNCHANGED <<phase, raised, tokVars, nestVars, minVars, batchVars>>

\* lines 46 and 78-81: the queue is built, no error is recorded yet
BatchInit ==
    /\ phase = "tokenize"
    /\ NestIdle
    /\ MinifyIdle
    /\ TokenizeIdle
    /\ queue \in SeqsUpTo(TemplateCodes, MaxQueue) \ {<<>>}
    /\ queue_index = 1
    /\ written = {}
    /\ errors = <<>>
    /\ pc = "queue"
    /\ raised = NoException

BatchNext ==
    \/ CompileTemplate
    \/ TakeInputNode
    \/ ApplyTransition
    \/ NoTransition
    \/ EndOfInput
    \/ WriteOutput
    \/ PrintError
    \/ TemplateDoesNotExist
    \/ EndOfQueue

\* the command is one sequential program: it takes its next step whenever
\* it has one
BatchSpec == BatchInit /\ [][BatchNext]_vars /\ WF_vars(BatchNext)

-----------------------------------------------------------------------------
(* nest_block_level_elements (lexer_engine.py, lines 151-251), called on a *)
(* tree whose children are tags (of the given class, recognised by name)   *)
(* and content tokens.  A node is named by its position in the children as *)
(* given; 0 in a child list stands for an element of the node itself (a    *)
(* tag element or a text), into which the recursive calls find nothing to  *)
(* nest.                                                                   *)

\* mappings: opening name -> (interior names ..., closing name, class)
Mappings == [Begin |-> <<"Else", "End", "Container">>,
             For |-> <<"EndFor", "Loop">>]

NestKinds == {"Begin", "Else", "End", "Tag", "A"}

\* the names of two kinds of block and content
MixedKinds == {"Begin", "For", "Else", "End", "EndFor", "A"}

\* any([isinstance(c, cls) for cls in _classes]): content is no tag
IsGivenClass(kind) == kind # "A"

\* check(c) if is_given_class else None
CheckValue(kind) == IF IsGivenClass(kind) THEN kind ELSE "None"

OriginalClass(kind) == IF IsGivenClass(kind) THEN "DjangoTag" ELSE "Token"

NodeLine(c) == 1
NodeColumn(c) == c

NameError == [type |-> "NameError", line |-> 0, column |-> 0, path |-> "",
              message |-> "name 'end_tag' is not defined", name |-> "", near |-> <<>>]

\* a remove that takes the first element of the list, whatever it is
RemoveHead(list, c) == IF list = <<>> THEN list ELSE Tail(list)

\* a remove that leaves the list as it is
RemoveNothing(list, c) == list

\* list.remove(c): without the first occurrence of c
Remove(list, c) ==
    IF \E k \in 1..Len(list) : list[k] = c
    THEN LET k == CHOOSE j \in 1..Len(list) :
                    list[j] = c /\ \A h \in 1..(j - 1) : list[h] # c
         IN  SubSeq(list, 1, k - 1) \o SubSeq(list, k + 1, Len(list))
    ELSE list

\* an append to the list of the outermost open block
AppendToOutermostList(lists, stack, index, c) ==
    LET node == Head(stack)
        old  == IF index \in DOMAIN lists[node] THEN lists[node][index] ELSE <<>>
    IN  [lists EXCEPT ![node] =
            [k \in DOMAIN @ \cup {index} |-> IF k = index THEN Append(old, c) ELSE @[k]]]

\* an append to the list after the current one of the innermost open block
AppendToFollowingList(lists, stack, index, c) ==
    LET node == Last(stack)
        old  == IF index + 1 \in DOMAIN lists[node] THEN lists[node][index + 1] ELSE <<>>
    IN  [lists EXCEPT ![node] =
            [k \in DOMAIN @ \cup {index + 1} |-> IF k = index + 1 THEN Append(old, c) ELSE @[k]]]

\* get_moving_to_list().append(c): the list `children<index>` of the node on
\* top of moving_to_node, created when the node does not have it
AppendToMovingList(lists, stack, index, c) ==
    LET node == Last(stack)
        old  == IF index \in DOMAIN lists[node] THEN lists[node][index] ELSE <<>>
    IN  [lists EXCEPT ![node] =
            [k \in DOMAIN @ \cup {index} |-> IF k = index THEN Append(old, c) ELSE @[k]]]

\* the children of a node after `c.children = []`
ChildrenOnceEmptied(lists, c) == <<>>

\* line 212: c.children[:], the argument of process_params
ChildrenOf(lists, c) == lists[c][0]

\* the outermost open block instead of the innermost
OutermostOpen(stack) == Head(stack)

\* moving_to_node[-1] of the "tag not terminated" error
StillOpen(stack) == Last(stack)

NestScanning == phase = "nest" /\ pc = "scan" /\ cursor <= Len(flat)

NestUnchanged == UNCHANGED <<phase, tokVars, flat, minVars, batchVars>>

\* lines 193-213: the start of a block-level tag
OpenBlock ==
    /\ NestScanning
    /\ LET c == cursor
           m == Mappings[CheckValue(flat[c])]
           end == SubSeq(m, 1, Len(m) - 1)
           class_ == m[Len(m)]
           moved == IF moving_to_node # <<>>
                    THEN AppendToMovingList(child_lists, moving_to_node, list_index, c)
                    ELSE child_lists
       IN  /\ IsGivenClass(flat[c])
           /\ CheckValue(flat[c]) \in DOMAIN Mappings
           /\ class_of' = [class_of EXCEPT ![c] = class_]
           /\ tree_children' = IF moving_to_node # <<>> THEN Remove(tree_children, c)
                               ELSE tree_children
           /\ moving_to_node' = Append(moving_to_node, c)
           /\ tags_stack' = Append(tags_stack, end)
           /\ processed' = Append(processed, <<c, ChildrenOf(child_lists, c)>>)
           /\ child_lists' = [moved EXCEPT ![c] = [k \in DOMAIN @ |-> IF k = 0 THEN <<>> ELSE @[k]]]
    /\ cursor' = cursor + 1
    /\ UNCHANGED <<pc, raised, list_index>>
    /\ NestUnchanged

\* lines 216-225: the end of the innermost open block
CloseBlock ==
    /\ NestScanning
    /\ ~(IsGivenClass(flat[cursor]) /\ CheckValue(flat[cursor]) \in DOMAIN Mappings)
    /\ moving_to_node # <<>>
    /\ IsGivenClass(flat[cursor])
    /\ CheckValue(flat[cursor]) = Last(Last(tags_stack))
    /\ tree_children' = Remove(tree_children, cursor)
    /\ moving_to_node' = Front(moving_to_node)
    /\ tags_stack' = Front(tags_stack)
    /\ cursor' = cursor + 1
    /\ UNCHANGED <<pc, raised, list_index, class_of, child_lists, processed>>
    /\ NestUnchanged

\* lines 228-236: an 'else' node of the innermost open block; line 232 reads
\* the name end_tag, which nothing defines
InteriorMarker ==
    /\ NestScanning
    /\ ~(IsGivenClass(flat[cursor]) /\ CheckValue(flat[cursor]) \in DOMAIN Mappings)
    /\ moving_to_node # <<>>
    /\ IsGivenClass(flat[cursor])
    /\ CheckValue(flat[cursor]) # Last(Last(tags_stack))
    /\ \E k \in 1..(Len(Last(tags_stack)) - 1) : Last(tags_stack)[k] = CheckValue(flat[cursor])
    /\ tree_children' = Remove(tree_children, cursor)
    /\ pc' = "raised"
    /\ raised' = NameError
    /\ UNCHANGED <<cursor, moving_to_node, tags_stack, list_index, class_of, child_lists,
                   processed>>
    /\ NestUnchanged

\* lines 239-244: any other child while a block is open
MoveChild ==
    /\ NestScanning
    /\ ~(IsGivenClass(flat[cursor]) /\ CheckValue(flat[cursor]) \in DOMAIN Mappings)
    /\ moving_to_node # <<>>
    /\ ~(IsGivenClass(flat[cursor])
         /\ \E k \in 1..Len(Last(tags_stack)) : Last(tags_stack)[k] = CheckValue(flat[cursor]))
    /\ child_lists' = AppendToMovingList(child_lists, moving_to_node, list_index, cursor)
    /\ tree_children' = Remove(tree_children, cursor)
    /\ cursor' = cursor + 1
    /\ UNCHANGED <<pc, raised, moving_to_node, tags_stack, list_index, class_of, processed>>
    /\ NestUnchanged

\* lines 246-248: a child outside every block stays where it is
KeepChild ==
    /\ NestScanning
    /\ ~(IsGivenClass(flat[cursor]) /\ CheckValue(flat[cursor]) \in DOMAIN Mappings)
    /\ moving_to_node = <<>>
    /\ cursor' = cursor + 1
    /\ UNCHANGED <<pc, raised, tree_children, moving_to_node, tags_stack, list_index,
                   class_of, child_lists, processed>>
    /\ NestUnchanged

\* lines 250-251: the end of the scan
EndOfScan ==
    /\ phase = "nest"
    /\ pc = "scan"
    /\ cursor > Len(flat)
    /\ IF moving_to_node # <<>>
       THEN /\ pc' = "raised"
            /\ raised' = LET open == StillOpen(moving_to_node)
                         IN  CompileException(NodeLine(open), NodeColumn(open), Path,
                                              "tag not terminated", class_of[open], <<>>)
       ELSE /\ pc' = "done"
            /\ UNCHANGED raised
    /\ UNCHANGED <<cursor, tree_children, moving_to_node, tags_stack, list_index, class_of,
                   child_lists, processed>>
    /\ NestUnchanged

\* longer children: a block inside a block, with content before the inner
\* block, in it and behind it
NestedBlocks == {<<"Begin", "A", "Begin", "A", "End", "A", "End">>}

\* children with blocks of two kinds, each with the markers of the other
\* kind inside it
MixedBlocks == SeqsUpTo(MixedKinds, MaxMixedLen)

NestInit ==
    /\ phase = "nest"
    /\ TokenizeIdle
    /\ MinifyIdle
    /\ BatchIdle
    /\ flat \in SeqsUpTo(NestKinds, MaxNestLen) \cup NestedBlocks \cup MixedBlocks
    /\ tree_children = [k \in 1..Len(flat) |-> k]
    /\ cursor = 1
    /\ moving_to_node = <<>>
    /\ list_index = 0
    /\ tags_stack = <<>>
    /\ class_of = [k \in 1..Len(flat) |-> OriginalClass(flat[k])]
    /\ child_lists = [k \in 1..Len(flat) |-> [j \in {0} |-> <<0>>]]
    /\ processed = <<>>
    /\ pc = "scan"
    /\ raised = NoException

NestNext ==
    \/ OpenBlock
    \/ CloseBlock
    \/ InteriorMarker
    \/ MoveChild
    \/ KeepChild
    \/ EndOfScan

NestSpec == NestInit /\ [][NestNext]_vars

-----------------------------------------------------------------------------
(* The JavaScript passes of compile_javascript_string (js_processor.py,    *)
(* lines 644-664) after tokenize: _validate_javascript and                 *)
(* _minify_variable_names.  The tree of js_node is kept depth first in     *)
(* js_tokens: a "js-scope" entry opens the children of a scope and the     *)
(* "end" entry after them closes it.  A node is named by its index in      *)
(* js_tokens, js_node itself by 0.  The tokens are one line of text, each  *)
(* operator without white space around it, so that                         *)
(* _compress_javascript_whitespace leaves their texts as they are.         *)

Keyword(text)    == [kind |-> "js-keyword", text |-> text]
WhiteSpace       == [kind |-> "js-whitespace", text |-> <<" ">>]
Variable(text)   == [kind |-> "js-varname", text |-> text]
Operator(text)   == [kind |-> "js-operator", text |-> text]
ScopeBegin       == [kind |-> "js-scope", text |-> <<"{">>]
ScopeEnd         == [kind |-> "end", text |-> <<"}">>]

KwVar      == <<"v","a","r">>
KwFunction == <<"f","u","n","c","t","i","o","n">>

\* the tokens of tokenize for the statements  var x;  x;  a.x  function f(x)
\* (a.x is the only one that does not end in an operator)
StatementTokens ==
    [declare  |-> <<Keyword(KwVar), WhiteSpace, Variable(<<"x">>), Operator(<<";">>)>>,
     use      |-> <<Variable(<<"x">>), Operator(<<";">>)>>,
     member   |-> <<Variable(<<"a">>), Operator(<<".">>), Variable(<<"x">>)>>,
     function |-> <<Keyword(KwFunction), WhiteSpace, Variable(<<"f">>), Operator(<<"(">>),
                    Variable(<<"x">>), Operator(<<")">>)>>]

Statements == DOMAIN StatementTokens

\* the white space that keeps a name apart from the name or keyword after it
Gap(before, after) ==
    IF /\ after # <<>>
       /\ Last(before).kind = "js-varname"
       /\ after[1].kind \in {"js-varname", "js-keyword"}
    THEN <<WhiteSpace>>
    ELSE <<>>

\* the token sequences of at most n tokens (the white space of Gap not
\* counted) and k scopes, `open` scopes being open at their start
RECURSIVE Programs(_, _, _)
Programs(n, k, open) ==
    (IF open = 0 THEN {<<>>} ELSE {})
    \cup UNION {{StatementTokens[w] \o Gap(StatementTokens[w], p) \o p :
                    p \in Programs(n - Len(StatementTokens[w]), k, open)} :
                w \in {v \in Statements : n - Len(StatementTokens[v]) >= open}}
    \cup (IF k > 0 /\ n - 1 >= open + 1
          THEN {<<ScopeBegin>> \o p : p \in Programs(n - 1, k - 1, open + 1)}
          ELSE {})
    \cup (IF open > 0 THEN {<<ScopeEnd>> \o p : p \in Programs(n - 1, k, open - 1)} ELSE {})

\* statements outside the main family: a name that nothing declares, an
\* expression ended by a comma and a declaration with no semicolon
MoreStatementTokens ==
    [other |-> <<Variable(<<"b">>), Operator(<<";">>)>>,
     comma |-> <<Variable(<<"x">>), Operator(<<",">>)>>,
     bare  |-> <<Keyword(KwVar), WhiteSpace, Variable(<<"x">>)>>]

\* the statements of the programs that use a name nothing declares
FreeWords == {StatementTokens.declare, StatementTokens.member, MoreStatementTokens.other}

\* the statements of the programs whose statements may lack their separator
SeparatorWords ==
    {StatementTokens.declare, StatementTokens.use, MoreStatementTokens.comma,
     MoreStatementTokens.bare}

\* Programs over the statements `words`
RECURSIVE ProgramsOf(_, _, _, _)
ProgramsOf(words, n, k, open) ==
    (IF open = 0 THEN {<<>>} ELSE {})
    \cup UNION {{w \o Gap(w, p) \o p : p \in ProgramsOf(words, n - Len(w), k, open)} :
                w \in {v \in words : n - Len(v) >= open}}
    \cup (IF k > 0 /\ n - 1 >= open + 1
          THEN {<<ScopeBegin>> \o p : p \in ProgramsOf(words, n - 1, k - 1, open + 1)}
          ELSE {})
    \cup (IF open > 0
          THEN {<<ScopeEnd>> \o p : p \in ProgramsOf(words, n - 1, k, open - 1)}
          ELSE {})

IsKind(t, c, kind) == t[c].kind = kind

\* the index of the "end" of the scope whose children start at i
RECURSIVE ScopeEndFrom(_, _, _)
ScopeEndFrom(t, i, depth) ==
    IF t[i].kind = "end" THEN (IF depth = 0 THEN i ELSE ScopeEndFrom(t, i + 1, depth - 1))
    ELSE IF t[i].kind = "js-scope" THEN ScopeEndFrom(t, i + 1, depth + 1)
    ELSE ScopeEndFrom(t, i + 1, depth)

RECURSIVE ChildrenFrom(_, _, _)
ChildrenFrom(t, i, stop) ==
    IF i >= stop THEN <<>>
    ELSE IF t[i].kind = "js-scope"
         THEN <<i>> \o ChildrenFrom(t, ScopeEndFrom(t, i + 1, 0) + 1, stop)
         ELSE <<i>> \o ChildrenFrom(t, i + 1, stop)

\* node.children, for js_node (0) and for a scope
Children(t, node) ==
    IF node = 0 THEN ChildrenFrom(t, 1, Len(t) + 1)
    ELSE ChildrenFrom(t, node + 1, ScopeEndFrom(t, node + 1, 0))

Scopes(t) == {i \in 1..Len(t) : t[i].kind = "js-scope"}

\* child_nodes_of_class([JavascriptScope]): the scopes in document order
ScopesInOrder(t) ==
    LET RECURSIVE From(_)
        From(i) == IF i > Len(t) THEN <<>>
                   ELSE IF t[i].kind = "js-scope" THEN <<i>> \o From(i + 1)
                   ELSE From(i + 1)
    IN  From(1)

RECURSIVE TextLength(_, _)
TextLength(t, n) == IF n = 0 THEN 0 ELSE Len(t[n].text) + TextLength(t, n - 1)

\* Token.line, Token.column of a node
TokenLine(t, c) == 1
TokenColumn(t, c) == 1 + TextLength(t, c - 1)

\* CompileException(node, message)
NodeException(t, c, message) ==
    CompileException(TokenLine(t, c), TokenColumn(t, c), Path, message, "", <<>>)

IsOperator(t, c, text) == t[c].kind = "js-operator" /\ t[c].text = text

-----------------------------------------------------------------------------
(* _validate_javascript (js_processor.py, lines 465-612).  A position in   *)
(* the children of a scope is i[0] + 1; the results are NoException or the *)
(* exception raised.                                                       *)

BlockKeywords ==
    {<<"f","o","r">>, <<"i","f">>, <<"s","w","i","t","c","h">>, KwFunction,
     <<"t","r","y">>, <<"c","a","t","c","h">>, <<"w","h","i","l","e">>}

\* lines 487-495
RECURSIVE skip_optional_function_name(_, _, _)
skip_optional_function_name(t, kids, i) ==
    IF i > Len(kids) THEN i
    ELSE IF IsKind(t, kids[i], "js-whitespace") THEN skip_optional_function_name(t, kids, i + 1)
    ELSE IF IsKind(t, kids[i], "js-varname") THEN i + 1
    ELSE i

\* lines 497-507: the position reached, or 0 when it raises
RECURSIVE go_to_open_bracket(_, _, _)
go_to_open_bracket(t, kids, i) ==
    IF i > Len(kids) THEN i
    ELSE IF IsKind(t, kids[i], "js-whitespace") THEN go_to_open_bracket(t, kids, i + 1)
    ELSE IF IsKind(t, kids[i], "js-scope") THEN i
    ELSE IF IsOperator(t, kids[i], <<"(">>) THEN i
    ELSE 0

\* lines 514-529
RECURSIVE skip_parameter_loop(_, _, _, _)
skip_parameter_loop(t, kids, i, stack) ==
    IF i > Len(kids) THEN i
    ELSE IF stack = <<>> THEN i
    ELSE LET c == kids[i]
             popped == IF IsOperator(t, c, <<"(">>) \/ IsOperator(t, c, <<"[">>)
                       THEN Append(stack, t[c].text)
                       ELSE IF IsOperator(t, c, <<")">>) /\ Last(stack) = <<"(">> THEN Front(stack)
                       ELSE IF IsOperator(t, c, <<"]">>) /\ Last(stack) = <<"[">> THEN Front(stack)
                       ELSE stack
         IN  skip_parameter_loop(t, kids, i + 1, popped)

\* lines 509-529
skip_parameter_list(t, kids, i) == skip_parameter_loop(t, kids, i + 1, <<t[kids[i]].text>>)

\* lines 531-537: the node, or 0 for None
RECURSIVE LastNonWhitespaceFrom(_, _, _)
LastNonWhitespaceFrom(t, kids, j) ==
    IF j > 1 /\ IsKind(t, kids[j], "js-whitespace") THEN LastNonWhitespaceFrom(t, kids, j - 1)
    ELSE IF j # 1 THEN kids[j] ELSE 0

get_last_non_whitespace_token(t, kids, i) ==
    IF i > 1 THEN LastNonWhitespaceFrom(t, kids, i - 1) ELSE 0

MissingSemicolon(t, c) ==
    NodeException(t, c, "Missing semicolon detected. Please check your Javascript code.")

\* lines 545-612: the loop over the children of one scope
RECURSIVE ValidateStatements(_, _, _, _)
ValidateStatements(t, kids, i, semi_colon_required) ==
    IF i > Len(kids) THEN NoException
    ELSE LET c == kids[i] IN
    IF IsKind(t, c, "js-keyword") /\ t[c].text \in BlockKeywords
    THEN IF semi_colon_required THEN MissingSemicolon(t, c)
         ELSE LET named == IF t[c].text = KwFunction
                           THEN skip_optional_function_name(t, kids, i + 1)
                           ELSE i + 1
                  bracket == IF named > Len(kids) THEN 0 ELSE go_to_open_bracket(t, kids, named)
              IN  IF named > Len(kids) THEN IndexError
                  ELSE IF bracket = 0
                  THEN NodeException(t, kids[named],
                           "Expected opening bracket. Please check your Javascript code.")
                  ELSE IF bracket > Len(kids) THEN IndexError
                  ELSE IF IsOperator(t, kids[bracket], <<"(">>)
                  THEN ValidateStatements(t, kids, skip_parameter_list(t, kids, bracket), FALSE)
                  ELSE ValidateStatements(t, kids, bracket, FALSE)
    ELSE IF IsKind(t, c, "js-keyword") /\ t[c].text = KwVar
    THEN LET last_token == get_last_non_whitespace_token(t, kids, i)
         IN  IF last_token = 0 THEN ValidateStatements(t, kids, i + 1, semi_colon_required)
             ELSE IF \/ IsOperator(t, last_token, <<"{">>)
                     \/ IsOperator(t, last_token, <<"}">>)
                     \/ IsOperator(t, last_token, <<";">>)
                     \/ IsKind(t, last_token, "js-scope")
             THEN ValidateStatements(t, kids, i + 1, semi_colon_required)
             ELSE MissingSemicolon(t, c)
    ELSE IF IsKind(t, c, "js-operator")
    THEN IF t[c].text = <<";">> \/ t[c].text = <<>>
         THEN ValidateStatements(t, kids, i + 1, FALSE)
         ELSE IF t[c].text = <<"(">> \/ t[c].text = <<"[">>
         THEN ValidateStatements(t, kids, skip_parameter_list(t, kids, i), TRUE)
         ELSE IF t[c].text = <<")">> \/ t[c].text = <<"]">>
         THEN NodeException(t, c, "Unexpected closing bracket, did not find an opening match. Please check your Javascript code.")
         ELSE ValidateStatements(t, kids, i + 1, FALSE)
    ELSE IF IsKind(t, c, "js-scope") THEN ValidateStatements(t, kids, i + 1, FALSE)
    ELSE IF IsKind(t, c, "js-varname")
    THEN IF semi_colon_required THEN MissingSemicolon(t, c)
         ELSE ValidateStatements(t, kids, i + 1, TRUE)
    ELSE ValidateStatements(t, kids, i + 1, semi_colon_required)

\* the check of lines 468-473 made on the first scope only
ValidateCommasOutermost(t, scopes, k) ==
    IF k > Len(scopes) \/ k > 1 THEN NoException
    ELSE LET kids == Children(t, scopes[k])
         IN  IF kids # <<>> /\ IsOperator(t, Last(kids), <<",">>)
             THEN NodeException(t, Last(kids),
                      "Please remove colon at the end of Javascript object (not supported by IE6 and IE7)")
             ELSE NoException

\* lines 468-473: the first scope whose last child is a comma
RECURSIVE ValidateCommas(_, _, _)
ValidateCommas(t, scopes, k) ==
    IF k > Len(scopes) THEN NoException
    ELSE LET kids == Children(t, scopes[k])
         IN  IF kids # <<>> /\ IsOperator(t, Last(kids), <<",">>)
             THEN NodeException(t, Last(kids),
                      "Please remove colon at the end of Javascript object (not supported by IE6 and IE7)")
             ELSE ValidateCommas(t, scopes, k + 1)

\* lines 478-612: the first scope with a missing semicolon
RECURSIVE ValidateScopes(_, _, _)
ValidateScopes(t, scopes, k) ==
    IF k > Len(scopes) THEN NoException
    ELSE LET found == ValidateStatements(t, Children(t, scopes[k]), 1, FALSE)
         IN  IF found # NoException THEN found ELSE ValidateScopes(t, scopes, k + 1)

validate_javascript(t) ==
    LET comma == ValidateCommas(t, ScopesInOrder(t), 1)
    IN  IF comma # NoException THEN comma ELSE ValidateScopes(t, ScopesInOrder(t), 1)

-----------------------------------------------------------------------------
(* _minify_variable_names (js_processor.py, lines 260-445).                *)

\* __JS_KEYWORDS (line 26): the keywords of the lexer, 'gcase' for 'case'
JS_KEYWORDS ==
    {IF JsKeywordWords[k] = <<"c","a","s","e">> THEN <<"g","c","a","s","e">> ELSE JsKeywordWords[k] :
        k \in 1..Len(JsKeywordWords)}

\* an empty symbol_table
EmptyTable == [name \in {} |-> 0]

\* symbol_table[name] = c
Declare(table, name, c) ==
    [n \in DOMAIN table \cup {name} |-> IF n = name THEN c ELSE table[n]]

\* find_variables without the in_root_node check of line 275
RECURSIVE find_variables_in_root(_, _, _, _, _, _, _)
find_variables_in_root(t, kids, k, scope, in_root_node, next_is_variable, tables) ==
    IF k > Len(kids) THEN tables
    ELSE LET c == kids[k] IN
    IF IsKind(t, c, "js-keyword") /\ t[c].text \in {KwFunction, KwVar}
    THEN find_variables_in_root(t, kids, k + 1, scope, in_root_node, TRUE, tables)
    ELSE IF IsKind(t, c, "js-varname") /\ next_is_variable
    THEN find_variables_in_root(t, kids, k + 1, scope, in_root_node, FALSE,
                                [tables EXCEPT ![scope] = Declare(@, t[c].text, c)])
    ELSE IF IsKind(t, c, "js-scope")
    THEN find_variables_in_root(t, kids, k + 1, scope, in_root_node, FALSE,
             find_variables_in_root(t, Children(t, c), 1, c, FALSE, FALSE, tables))
    ELSE IF IsKind(t, c, "js-whitespace")
    THEN find_variables_in_root(t, kids, k + 1, scope, in_root_node, next_is_variable, tables)
    ELSE find_variables_in_root(t, kids, k + 1, scope, in_root_node, FALSE, tables)

\* lines 271-297: the symbol tables after find_variables(js_node, scope, in_root_node),
\* from child k of js_node on
RECURSIVE find_variables(_, _, _, _, _, _, _)
find_variables(t, kids, k, scope, in_root_node, next_is_variable, tables) ==
    IF k > Len(kids) THEN tables
    ELSE LET c == kids[k] IN
    IF IsKind(t, c, "js-keyword") /\ t[c].text \in {KwFunction, KwVar} /\ ~in_root_node
    THEN find_variables(t, kids, k + 1, scope, in_root_node, TRUE, tables)
    ELSE IF IsKind(t, c, "js-varname") /\ next_is_variable
    THEN find_variables(t, kids, k + 1, scope, in_root_node, FALSE,
                        [tables EXCEPT ![scope] = Declare(@, t[c].text, c)])
    ELSE IF IsKind(t, c, "js-scope")
    THEN find_variables(t, kids, k + 1, scope, in_root_node, FALSE,
                        find_variables(t, Children(t, c), 1, c, FALSE, FALSE, tables))
    ELSE IF IsKind(t, c, "js-whitespace")
    THEN find_variables(t, kids, k + 1, scope, in_root_node, next_is_variable, tables)
    ELSE find_variables(t, kids, k + 1, scope, in_root_node, FALSE, tables)

\* lines 313-315: the position reached, 0 when current_node() is out of range
RECURSIVE skip_whitespace(_, _, _)
skip_whitespace(t, kids, i) ==
    IF i > Len(kids) THEN 0
    ELSE IF IsKind(t, kids[i], "js-whitespace") THEN skip_whitespace(t, kids, i + 1)
    ELSE i

\* lines 317-320
RECURSIVE skip_whitespace_and_kommas(_, _, _)
skip_whitespace_and_kommas(t, kids, i) ==
    IF i > Len(kids) THEN 0
    ELSE IF IsKind(t, kids[i], "js-whitespace") \/ IsOperator(t, kids[i], <<",">>)
    THEN skip_whitespace_and_kommas(t, kids, i + 1)
    ELSE i

\* lines 347-350: the parameters and the position after them (0: out of range)
RECURSIVE RememberParameters(_, _, _, _)
RememberParameters(t, kids, i, variables) ==
    IF i = 0 \/ i > Len(kids) THEN [i |-> 0, variables |-> variables]
    ELSE IF IsKind(t, kids[i], "js-varname")
    THEN RememberParameters(t, kids, skip_whitespace_and_kommas(t, kids, i + 1),
                            Append(variables, kids[i]))
    ELSE [i |-> i, variables |-> variables]

\* lines 363-364
RECURSIVE BindParameters(_, _, _, _)
BindParameters(t, variables, k, table) ==
    IF k > Len(variables) THEN table
    ELSE BindParameters(t, variables, k + 1, Declare(table, t[variables[k]].text, variables[k]))

\* lines 325-367: the symbol tables after find_variables_2(js_node, js_node) and
\* what it raised, from child i of js_node on
RECURSIVE find_variables_2(_, _, _, _)
find_variables_2(t, kids, i, tables) ==
    IF i > Len(kids) THEN [tables |-> tables, raised |-> NoException]
    ELSE IF ~(IsKind(t, kids[i], "js-keyword") /\ t[kids[i]].text = KwFunction)
    THEN find_variables_2(t, kids, i + 1, tables)
    ELSE LET afterKeyword == skip_whitespace(t, kids, i + 1)
             afterName == IF IsKind(t, kids[afterKeyword], "js-varname")
                          THEN skip_whitespace(t, kids, afterKeyword + 1)
                          ELSE afterKeyword
             inList == skip_whitespace(t, kids, afterName + 1)
             remembered == RememberParameters(t, kids, inList, <<>>)
             afterList == skip_whitespace(t, kids, remembered.i + 1)
             failed(exception) == [tables |-> tables, raised |-> exception]
         IN  IF afterKeyword = 0 THEN failed(IndexError)
             ELSE IF afterName = 0 THEN failed(IndexError)
             ELSE IF ~IsOperator(t, kids[afterName], <<"(">>)
             THEN failed(NodeException(t, kids[afterName], "Expected \"(\""))
             ELSE IF inList = 0 THEN failed(IndexError)
             ELSE IF remembered.i = 0 THEN failed(IndexError)
             ELSE IF ~IsOperator(t, kids[remembered.i], <<")">>)
             THEN failed(NodeException(t, kids[remembered.i], "Expected \"(\""))
             ELSE IF afterList = 0 THEN failed(IndexError)
             ELSE IF ~IsKind(t, kids[afterList], "js-scope")
             THEN failed(NodeException(t, kids[afterList], "Expected \"{\""))
             ELSE find_variables_2(t, kids, afterList,
                      [tables EXCEPT ![kids[afterList]] =
                          BindParameters(t, remembered.variables, 1, @)])

\* lines 392-396: the first of parent_scopes that declares varname, -1 if none
RECURSIVE DeclaringScope(_, _, _, _)
DeclaringScope(tables, parent_scopes, k, name) ==
    IF k > Len(parent_scopes) THEN -1
    ELSE IF name \in DOMAIN tables[parent_scopes[k]] THEN parent_scopes[k]
    ELSE DeclaringScope(tables, parent_scopes, k + 1, name)

\* lines 380-407: link_to and global_variable_names after
\* find_free_variables(js_node, parent_scopes), from child k of js_node on
RECURSIVE find_free_variables(_, _, _, _, _, _, _)
find_free_variables(t, tables, kids, k, parent_scopes, skip_next_var, found) ==
    IF k > Len(kids) THEN found
    ELSE LET c == kids[k] IN
    IF IsKind(t, c, "js-operator")
    THEN find_free_variables(t, tables, kids, k + 1, parent_scopes, t[c].text = <<".">>, found)
    ELSE IF IsKind(t, c, "js-varname")
    THEN LET s == DeclaringScope(tables, parent_scopes, 1, t[c].text)
             resolved ==
                 IF skip_next_var THEN found
                 ELSE IF s # -1
                 THEN [found EXCEPT !.link_to[c] = tables[s][t[c].text]]
                 ELSE [found EXCEPT !.global_variable_names = Append(@, t[c].text)]
         IN  find_free_variables(t, tables, kids, k + 1, parent_scopes,
                                 skip_next_var, resolved)
    ELSE IF IsKind(t, c, "js-scope")
    THEN find_free_variables(t, tables, kids, k + 1, parent_scopes, skip_next_var,
             find_free_variables(t, tables, Children(t, c), 1, <<c>> \o parent_scopes, FALSE, found))
    ELSE find_free_variables(t, tables, kids, k + 1, parent_scopes, skip_next_var, found)

\* string.lowercase
Lowercase ==
    <<"a","b","c","d","e","f","g","h","i","j","k","l","m",
      "n","o","p","q","r","s","t","u","v","w","x","y","z">>

\* lines 412-413
GeneratedName(c) == [i \in 1..Len(c) |-> Lowercase[c[i] + 1]]

\* lines 420-426: the overflow loop over range(0, len(c)), from index i on
RECURSIVE Overflow(_, _, _)
Overflow(c, i, n) ==
    IF i > n THEN c
    ELSE IF c[i] = Len(Lowercase)
    THEN IF i + 1 <= Len(c)
         THEN Overflow([c EXCEPT ![i] = 0, ![i + 1] = @ + 1], i + 1, n)
         ELSE Overflow(Append([c EXCEPT ![i] = 0], 0), i + 1, n)
    ELSE Overflow(c, i + 1, n)

\* lines 416-428
RECURSIVE NextFreeName(_, _)
NextFreeName(c, avoid_names) ==
    IF GeneratedName(c) \in avoid_names
    THEN NextFreeName(Overflow([c EXCEPT ![1] = @ + 1], 1, Len(c)), avoid_names)
    ELSE GeneratedName(c)

\* lines 410-428; only membership in avoid_names is read, so it is a set here
generate_varname(avoid_names) == NextFreeName(<<0>>, avoid_names \cup JS_KEYWORDS)

\* lines 436-439: `for s in js_node.symbol_table`, the keys coming in `order`
RECURSIVE RenameSymbols(_, _, _, _, _)
RenameSymbols(table, order, k, avoid_names, names) ==
    IF k > Len(order) THEN [avoid_names |-> avoid_names, varname |-> names]
    ELSE IF order[k] \in DOMAIN table
    THEN LET new_name == generate_varname(avoid_names)
         IN  RenameSymbols(table, order, k + 1, avoid_names \cup {new_name},
                           [names EXCEPT ![table[order[k]]] = new_name])
    ELSE RenameSymbols(table, order, k + 1, avoid_names, names)

\* lines 434-443: the new names after rename_variables(js_node, avoid_names);
\* of the children only the scopes have symbols or children to rename
RECURSIVE rename_variables(_, _, _, _, _, _)
RECURSIVE RenameChildren(_, _, _, _, _, _, _)
rename_variables(t, tables, node, orders, avoid_names, names) ==
    LET own == RenameSymbols(tables[node], orders[node], 1, avoid_names, names)
    IN  RenameChildren(t, tables, Children(t, node), 1, orders, own.avoid_names, own.varname)

RenameChildren(t, tables, kids, k, orders, avoid_names, names) ==
    IF k > Len(kids) THEN names
    ELSE IF IsKind(t, kids[k], "js-scope")
    THEN RenameChildren(t, tables, kids, k + 1, orders, avoid_names,
                        rename_variables(t, tables, kids[k], orders, avoid_names, names))
    ELSE RenameChildren(t, tables, kids, k + 1, orders, avoid_names, names)

\* the orders in which a dictionary may hand out its keys
KeyOrders(names) ==
    {order \in [1..Cardinality(names) -> names] : \A n \in names : \E k \in DOMAIN order : order[k] = n}

\* one order for the symbol_table of every node
TableOrders(tables) ==
    LET any == UNION {KeyOrders(DOMAIN tables[node]) : node \in DOMAIN tables}
    IN  {orders \in [DOMAIN tables -> any] :
            \A node \in DOMAIN tables : orders[node] \in KeyOrders(DOMAIN tables[node])}

\* JavascriptVariable.output (lines 179-189) of a variable node
RECURSIVE VariableOutput(_, _, _, _)
VariableOutput(t, names, links, c) ==
    IF names[c] # <<>> THEN names[c]
    ELSE IF links[c] # 0 THEN VariableOutput(t, names, links, links[c])
    ELSE t[c].text

\* tree.output_as_string(): the text of the tokens from c on
RECURSIVE OutputFrom(_, _, _, _)
OutputFrom(t, names, links, c) ==
    IF c > Len(t) THEN <<>>
    ELSE (IF IsKind(t, c, "js-varname") THEN VariableOutput(t, names, links, c) ELSE t[c].text)
         \o OutputFrom(t, names, links, c + 1)

MinifyUnchanged ==
    UNCHANGED <<phase, tokVars, nestVars, js_tokens, batchVars, names_to_avoid, new_names,
                child_index, semi_required>>

MinifyAt(step) == phase = "minify" /\ pc = step

\* compile_javascript_string, line 658
ValidateJavascript ==
    /\ MinifyAt("validate")
    /\ \E found \in {validate_javascript(js_tokens)} :
          IF found = NoException
          THEN pc' = "find_variables" /\ UNCHANGED raised
          ELSE pc' = "raised" /\ raised' = found
    /\ UNCHANGED <<symbol_table, link_to, varname, global_variable_names>>
    /\ MinifyUnchanged

\* _minify_variable_names, line 371
FindVariables ==
    /\ MinifyAt("find_variables")
    /\ symbol_table' = find_variables(js_tokens, Children(js_tokens, 0), 1, 0, TRUE, FALSE,
                                      symbol_table)
    /\ pc' = "find_variables_2"
    /\ UNCHANGED <<raised, link_to, varname, global_variable_names>>
    /\ MinifyUnchanged

\* _minify_variable_names, line 372
FindVariables2 ==
    /\ MinifyAt("find_variables_2")
    /\ \E found \in {find_variables_2(js_tokens, Children(js_tokens, 0), 1, symbol_table)} :
          /\ symbol_table' = found.tables
          /\ IF found.raised = NoException
             THEN pc' = "find_free_variables" /\ UNCHANGED raised
             ELSE pc' = "raised" /\ raised' = found.raised
    /\ UNCHANGED <<link_to, varname, global_variable_names>>
    /\ MinifyUnchanged

\* _minify_variable_names, line 407
FindFreeVariables ==
    /\ MinifyAt("find_free_variables")
    /\ \E found \in {find_free_variables(js_tokens, symbol_table, Children(js_tokens, 0), 1,
                                         <<0>>, FALSE,
                                         [link_to |-> link_to,
                                          global_variable_names |-> global_variable_names])} :
          /\ link_to' = found.link_to
          /\ global_variable_names' = found.global_variable_names
    /\ pc' = "rename_variables"
    /\ UNCHANGED <<raised, symbol_table, varname>>
    /\ MinifyUnchanged

\* _minify_variable_names, line 445; the dictionaries hand out their keys in
\* an order the code does not choose
RenameVariables ==
    /\ MinifyAt("rename_variables")
    /\ \E orders \in TableOrders(symbol_table) :
          varname' = rename_variables(js_tokens, symbol_table, 0, orders,
                                      {global_variable_names[k] : k \in DOMAIN global_variable_names},
                                      varname)
    /\ pc' = "done"
    /\ UNCHANGED <<raised, symbol_table, link_to, global_variable_names>>
    /\ MinifyUnchanged

\* the programs have a scope for every so many tokens
TokensPerScope == 8

\* the programs of at most n tokens given to the passes: the main family,
\* and two smaller ones over the other statements
JsPrograms(n) ==
    Programs(n, n \div TokensPerScope, 0)
    \cup ProgramsOf(FreeWords, n - 4, n \div TokensPerScope, 0)
    \cup ProgramsOf(SeparatorWords, n - 6, n \div TokensPerScope, 0)

MinifyInit ==
    /\ phase = "minify"
    /\ TokenizeIdle
    /\ NestIdle
    /\ BatchIdle
    /\ js_tokens \in JsPrograms(MaxTokens)
    /\ symbol_table = [node \in {0} \cup Scopes(js_tokens) |-> EmptyTable]
    /\ link_to = [c \in 1..Len(js_tokens) |-> 0]
    /\ varname = [c \in 1..Len(js_tokens) |-> <<>>]
    /\ global_variable_names = <<>>
    /\ names_to_avoid = {}
    /\ new_names = <<>>
    /\ child_index = 0
    /\ semi_required = FALSE
    /\ pc = "validate"
    /\ raised = NoException

MinifyNext ==
    \/ ValidateJavascript
    \/ FindVariables
    \/ FindVariables2
    \/ FindFreeVariables
    \/ RenameVariables

MinifySpec == MinifyInit /\ [][MinifyNext]_vars

-----------------------------------------------------------------------------
(* The loop of rename_variables over one symbol_table (lines 436-439), with *)
(* more symbols than the programs above declare: every pass asks            *)
(* generate_varname for a name and adds it to avoid_names.                  *)

\* names that the free variables of a program may have put in
\* global_variable_names
GlobalNames == {<<"a">>, <<"c">>, <<"z">>, <<"a","a">>, <<"a","b">>, <<"b","a">>}

\* lines 436-439: one pass of `for s in js_node.symbol_table`;
\* generate_varname has added the keywords to the list it was given
SetVariableName ==
    /\ phase = "rename_variables"
    /\ Len(new_names) < MaxSymbols
    /\ LET new_name == generate_varname(names_to_avoid)
       IN  /\ new_names' = Append(new_names, new_name)
           /\ names_to_avoid' = names_to_avoid \cup JS_KEYWORDS \cup {new_name}
    /\ UNCHANGED <<phase, pc, raised, tokVars, nestVars, batchVars, js_tokens,
                   symbol_table, link_to, varname, global_variable_names, child_index,
                   semi_required>>

\* line 445: rename_variables(js_node, global_variable_names[:])
NamesInit ==
    /\ phase = "rename_variables"
    /\ TokenizeIdle
    /\ NestIdle
    /\ BatchIdle
    /\ js_tokens = <<>>
    /\ symbol_table = <<>>
    /\ link_to = <<>>
    /\ varname = <<>>
    /\ global_variable_names = <<>>
    /\ names_to_avoid \in SUBSET GlobalNames
    /\ new_names = <<>>
    /\ child_index = 0
    /\ semi_required = FALSE
    /\ pc = "rename_variables"
    /\ raised = NoException

NamesNext == SetVariableName

NamesSpec == NamesInit /\ [][NamesNext]_vars

-----------------------------------------------------------------------------
(* Properties of tokenize.                                                 *)

AtEndOfInput == phase = "tokenize" /\ pc = "nodes" /\ input_nodes = <<>>

\* C1: a top-level call that reaches the end of its input with an open-token
\* stack other than [root] raises "<name> not terminated" carrying name, line,
\* column and path of the node on top of that stack; when every StartToken
\* was matched by a StopToken the stack is [root] and the call returns.
C1_NotTerminated ==
    [][AtEndOfInput =>
        /\ token_stack # <<1>> =>
              /\ token_stack # <<>>
              /\ pc' = "raised"
              /\ LET top == nodes[Last(token_stack)]
                 IN  raised' = CompileException(top.line, top.column, top.path,
                                                "not terminated", top.name, <<>>)
        /\ stopped = Len(nodes) - 1 =>
              /\ token_stack = <<1>>
              /\ pc' = "done"
              /\ raised' = NoException]_vars

\* C1 witness: the call ended with "not terminated" while two tokens were
\* open, and the error names the inner one.
C1_Witness ==
    /\ pc = "raised"
    /\ raised.message = "not terminated"
    /\ Len(token_stack) = 3
    /\ nodes[token_stack[2]].name # nodes[token_stack[3]].name
    /\ raised.name = nodes[token_stack[3]].name

\* C2 (as claimed): whenever a top-level call returns normally the state
\* stack is the single 'root' frame and the open-token stack is [root].
C2_StacksRestored ==
    (phase = "tokenize" /\ pc = "done") =>
        (state_stack = <<"root">> /\ token_stack = <<1>>)

\* C3: when a text run has been processed without raising, the read position
\* is the length of the run, the Shift advances sum up to that length and
\* every character was covered by exactly one Shift; while the run is being
\* processed the same holds of the part before the read position.
C3_TotalConsumption ==
    phase = "tokenize" =>
        /\ position <= Len(string)
        /\ shifted = position
        /\ \A k \in 1..Len(string) : cover[k] = (IF k <= position THEN 1 ELSE 0)
        /\ (pc \in {"nodes", "done"} \/ raised.message = "not terminated") =>
               position = Len(string)

\* C3 witness: a run of three characters was consumed by a rule that shifts
\* twice and by another rule, and the call returned.
C3_Witness ==
    /\ pc = "done"
    /\ states = "pair"
    /\ string = <<"a", "b", "a">>
    /\ position = 3

TextNode(id, name, text) ==
    /\ nodes[id].name = name
    /\ nodes[id].children = <<TextChild(text)>>

\* C5: with the digits/operator table the text "12+3" yields exactly the
\* children [Number("12"), Operator("+"), Number("3")] under the root, with
\* no residual input and both stacks balanced.
C5_Calc ==
    (states = "calc" /\ string = <<"1", "2", "+", "3">> /\ pc \in {"done", "raised"}) =>
        /\ pc = "done"
        /\ nodes[1].children = <<NodeChild(2), NodeChild(3), NodeChild(4)>>
        /\ Len(nodes) = 4
        /\ TextNode(2, "Number", <<"1", "2">>)
        /\ TextNode(3, "Operator", <<"+">>)
        /\ TextNode(4, "Number", <<"3">>)
        /\ position = Len(string)
        /\ state_stack = <<"root">>
        /\ token_stack = <<1>>

\* C5 witness: the call on "12+3" has returned.
C5_Witness == states = "calc" /\ string = <<"1", "2", "+", "3">> /\ pc = "done"

\* C6 (as claimed): when unconsumed text is present and no rule of the
\* active state matches it, the call ends with a fatal error instead of
\* going round the loop without progress.
C6_NoMatchIsFatal ==
    stalled => (pc = "raised" /\ raised.type = "CompileException")

-----------------------------------------------------------------------------
(* Properties of nest_block_level_elements.                                *)

NestEnded == phase = "nest" /\ pc \in {"done", "raised"}

\* the list `children<k>` of a node, empty when the node does not have it
ChildList(c, k) == IF k \in DOMAIN child_lists[c] THEN child_lists[c][k] ELSE <<>>

\* C7 (as claimed): for [Begin, A, Else, B, End] the call completes without
\* error and leaves one Container in the parent, with primary children [A]
\* and secondary children [B]; the Else and End markers are removed.
C7_ElseBlock ==
    (NestEnded /\ flat = <<"Begin", "A", "Else", "A", "End">>) =>
        /\ pc = "done"
        /\ tree_children = <<1>>
        /\ class_of[1] = "Container"
        /\ ChildList(1, 0) = <<2>>
        /\ ChildList(1, 1) = <<4>>

\* C8: for [Begin, A, End] the call leaves one Container in the parent, with
\* primary children [A] and no secondary children; the End marker is removed.
C8_PlainBlock ==
    (NestEnded /\ flat = <<"Begin", "A", "End">>) =>
        /\ pc = "done"
        /\ raised = NoException
        /\ tree_children = <<1>>
        /\ class_of[1] = "Container"
        /\ ChildList(1, 0) = <<2>>
        /\ \A k \in 1..2 : ChildList(1, k) = <<>>
        /\ \A c \in 1..3 : \A k \in DOMAIN child_lists[c] : \A j \in 1..Len(child_lists[c][k]) :
              child_lists[c][k][j] # 3

\* C8 witness: the call on [Begin, A, End] has returned.
C8_Witness == phase = "nest" /\ pc = "done" /\ flat = <<"Begin", "A", "End">>

\* C9: when the scan ends while a block is open the call raises a
\* CompileException with line, column and path of the innermost open opening
\* marker; when every opened block was closed the end of the scan raises
\* nothing; and no other step of the scan raises a CompileException.
C9_Unterminated ==
    [][phase = "nest" =>
        /\ (pc = "scan" /\ cursor > Len(flat) /\ moving_to_node # <<>>) =>
              /\ pc' = "raised"
              /\ raised'.type = "CompileException"
              /\ raised'.message = "tag not terminated"
              /\ raised'.line = NodeLine(Last(moving_to_node))
              /\ raised'.column = NodeColumn(Last(moving_to_node))
              /\ raised'.path = Path
        /\ (pc = "scan" /\ cursor > Len(flat) /\ moving_to_node = <<>>) =>
              (pc' = "done" /\ raised' = NoException)
        /\ (pc = "scan" /\ cursor <= Len(flat)) => raised'.type # "CompileException"]_vars

\* C9 witness: the scan ended with two blocks open and the error carries the
\* position of the inner one.
C9_Witness ==
    /\ phase = "nest"
    /\ pc = "raised"
    /\ raised.type = "CompileException"
    /\ Len(moving_to_node) = 2
    /\ raised.column = NodeColumn(moving_to_node[2])
    /\ raised.column # NodeColumn(moving_to_node[1])

-----------------------------------------------------------------------------
(* Properties of _minify_variable_names.                                   *)

MinifyEnded == phase = "minify" /\ pc = "done"

\* a name that stands for a variable: not the member name after a '.'
IsOccurrence(c) ==
    /\ IsKind(js_tokens, c, "js-varname")
    /\ ~(c > 1 /\ IsOperator(js_tokens, c - 1, <<".">>))

\* the name of  var <name>
IsVarDeclaration(c) ==
    /\ IsKind(js_tokens, c, "js-varname")
    /\ c > 2
    /\ IsKind(js_tokens, c - 1, "js-whitespace")
    /\ IsKind(js_tokens, c - 2, "js-keyword")
    /\ js_tokens[c - 2].text = KwVar

\* the scopes around a node, js_node not counted
Enclosing(c) ==
    {s \in Scopes(js_tokens) : s < c /\ c < ScopeEndFrom(js_tokens, s + 1, 0)}

\* the scope a node is a child of, 0 for js_node
ScopeOf(c) ==
    IF Enclosing(c) = {} THEN 0 ELSE CHOOSE s \in Enclosing(c) : \A o \in Enclosing(c) : o <= s

VarDeclarations(s, name) ==
    {d \in 1..Len(js_tokens) : IsVarDeclaration(d) /\ ScopeOf(d) = s /\ js_tokens[d].text = name}

DeclaringScopes(c) == {s \in Enclosing(c) : VarDeclarations(s, js_tokens[c].text) # {}}

\* the innermost scope around c that declares its name with var, 0 if none
InnermostDeclaring(c) ==
    IF DeclaringScopes(c) = {} THEN 0
    ELSE CHOOSE s \in DeclaringScopes(c) : \A o \in DeclaringScopes(c) : o <= s

\* a scope that declares var x around a scope that declares var x again
Shadowing ==
    \E outer \in Scopes(js_tokens) : \E inner \in Scopes(js_tokens) :
        /\ outer \in Enclosing(inner)
        /\ VarDeclarations(outer, <<"x">>) # {}
        /\ VarDeclarations(inner, <<"x">>) # {}

OnlyVarDeclares == \A c \in 1..Len(js_tokens) : js_tokens[c].text # KwFunction

\* what a variable node renders as after the renaming
NewName(c) == VariableOutput(js_tokens, varname, link_to, c)

\* the names a reader of scope s sees from outside it: what the variables of
\* the scopes around it and of js_node render as, and the names no scope declares
VisibleFromOutside(s) ==
    {NewName(c) :
        c \in {o \in 1..Len(js_tokens) : IsOccurrence(o) /\ ScopeOf(o) \in Enclosing(s) \cup {0}}}
    \cup {js_tokens[c].text :
        c \in {o \in 1..Len(js_tokens) : IsOccurrence(o) /\ InnermostDeclaring(o) = 0}}

\* c is linked to a declaration of its name in the innermost scope that
\* declares it, or is the renamed declaration itself
Resolved(c) ==
    LET declarations == VarDeclarations(InnermostDeclaring(c), js_tokens[c].text)
    IN  \/ link_to[c] \in declarations
        \/ c \in declarations /\ varname[c] # <<>>

\* C10 (as claimed): when a scope other than js_node declares var x and a
\* scope nested in it declares var x again, every occurrence of x is linked
\* to the declaration of the innermost scope around it that declares x, and
\* the new name of every such declaration is no reserved word, no name
\* visible from a scope around it, and differs from the other's.
C10_ShadowingSafe ==
    (MinifyEnded /\ OnlyVarDeclares /\ Shadowing) =>
        /\ \A c \in 1..Len(js_tokens) :
              (IsOccurrence(c) /\ InnermostDeclaring(c) # 0) => Resolved(c)
        /\ \A s \in Scopes(js_tokens) : \A d \in VarDeclarations(s, <<"x">>) :
              /\ \A k \in 1..Len(JsKeywordWords) : NewName(d) # JsKeywordWords[k]
              /\ NewName(d) \notin VisibleFromOutside(s)
              /\ \A o \in Enclosing(s) : \A e \in VarDeclarations(o, <<"x">>) :
                    NewName(d) # NewName(e)

\* the name of  function <name>
IsFunctionName(c) ==
    /\ IsKind(js_tokens, c, "js-varname")
    /\ c > 2
    /\ IsKind(js_tokens, c - 1, "js-whitespace")
    /\ IsKind(js_tokens, c - 2, "js-keyword")
    /\ js_tokens[c - 2].text = KwFunction

\* a name of the parameter list of a function
IsParameter(c) ==
    /\ IsKind(js_tokens, c, "js-varname")
    /\ c > 1
    /\ IsOperator(js_tokens, c - 1, <<"(">>)
    /\ c > 2
    /\ IsFunctionName(c - 2)

\* the body scope of the function with parameter p, 0 if it has none
BodyOf(p) ==
    IF /\ p + 2 <= Len(js_tokens)
       /\ IsOperator(js_tokens, p + 1, <<")">>)
       /\ IsKind(js_tokens, p + 2, "js-scope")
    THEN p + 2
    ELSE 0

\* scope s declares the name: with var, as a function or as a parameter of
\* the function it is the body of
DeclaredIn(s, name) ==
    \E d \in 1..Len(js_tokens) :
        /\ js_tokens[d].text = name
        /\ \/ (IsVarDeclaration(d) \/ IsFunctionName(d)) /\ ScopeOf(d) = s
           \/ IsParameter(d) /\ BodyOf(d) = s

\* an identifier that no scope around it declares
IsFree(c) ==
    /\ IsOccurrence(c)
    /\ ~IsParameter(c)
    /\ \A s \in Enclosing(c) : ~DeclaredIn(s, js_tokens[c].text)

\* the generated names
GeneratedNames == {varname[d] : d \in {e \in 1..Len(js_tokens) : varname[e] # <<>>}}

\* C11 (as claimed): an identifier that no scope around it declares renders
\* as its original text, and no generated name equals its name.
C11_FreeNamesKept ==
    MinifyEnded =>
        \A c \in 1..Len(js_tokens) :
            IsFree(c) =>
                /\ NewName(c) = js_tokens[c].text
                /\ js_tokens[c].text \notin GeneratedNames

\* _validate_javascript has returned or raised
Validated == phase = "minify" /\ pc # "validate"

\* the last child of scope s is the ',' operator
TrailingComma(s) ==
    /\ Children(js_tokens, s) # <<>>
    /\ IsOperator(js_tokens, Last(Children(js_tokens, s)), <<",">>)

CommaMessage ==
    "Please remove colon at the end of Javascript object (not supported by IE6 and IE7)"

\* C12: when some scope, at any depth, ends with the ',' operator, validation
\* raises CompileException at such an operator; when no scope ends with one,
\* validation does not raise this error.
C12_TrailingComma ==
    Validated =>
        /\ (\E s \in Scopes(js_tokens) : TrailingComma(s)) <=> raised.message = CommaMessage
        /\ raised.message = CommaMessage =>
              /\ pc = "raised"
              /\ raised.type = "CompileException"
              /\ \E s \in Scopes(js_tokens) :
                    /\ TrailingComma(s)
                    /\ raised.line = TokenLine(js_tokens, Last(Children(js_tokens, s)))
                    /\ raised.column = TokenColumn(js_tokens, Last(Children(js_tokens, s)))

\* validation has raised for a comma that ends a scope inside another scope
C12_Witness ==
    /\ Validated
    /\ raised.message = CommaMessage
    /\ \E s \in Scopes(js_tokens) : TrailingComma(s) /\ Enclosing(s) # {}
    /\ \A s \in Scopes(js_tokens) : Enclosing(s) = {} => ~TrailingComma(s)

\* c is the var keyword of a declaration that follows  var <name>  with no
\* ';' in between
SecondDeclaration(c) ==
    /\ c > 4
    /\ IsKind(js_tokens, c, "js-keyword")
    /\ js_tokens[c].text = KwVar
    /\ IsKind(js_tokens, c - 1, "js-whitespace")
    /\ IsVarDeclaration(c - 2)

SemicolonMessage == "Missing semicolon detected. Please check your Javascript code."

\* C13 (as claimed): when two var declarations follow each other at the same
\* nesting level, in js_node or in a scope, with no ';' between them,
\* validation raises CompileException at the position of a token of the text.
C13_MissingSemicolon ==
    (Validated /\ \E c \in 1..Len(js_tokens) : SecondDeclaration(c)) =>
        /\ pc = "raised"
        /\ raised.type = "CompileException"
        /\ raised.message \in {SemicolonMessage, CommaMessage}
        /\ \E o \in 1..Len(js_tokens) :
              /\ raised.line = TokenLine(js_tokens, o)
              /\ raised.column = TokenColumn(js_tokens, o)

\* the name of a var or function declaration among the children of js_node
IsRootDeclaration(d) == (IsVarDeclaration(d) \/ IsFunctionName(d)) /\ ScopeOf(d) = 0

\* C14: the symbol table of js_node stays empty, and a name declared with
\* var or function among the children of js_node keeps its text: at the
\* declaring token and at every use that no scope around it shadows.
C14_RootNamesKept ==
    phase = "minify" =>
        /\ symbol_table[0] = EmptyTable
        /\ \A d \in 1..Len(js_tokens) :
              IsRootDeclaration(d) =>
                  /\ varname[d] = <<>>
                  /\ NewName(d) = js_tokens[d].text
                  /\ \A c \in 1..Len(js_tokens) :
                        (IsFree(c) /\ js_tokens[c].text = js_tokens[d].text) =>
                            NewName(c) = js_tokens[c].text

\* the renaming is over, it gave new names, and a name declared with var in
\* js_node is used inside a scope that does not declare it, while a function
\* declared in js_node kept its name
C14_Witness ==
    /\ MinifyEnded
    /\ GeneratedNames # {}
    /\ \E d \in 1..Len(js_tokens) :
          /\ IsRootDeclaration(d)
          /\ IsVarDeclaration(d)
          /\ \E c \in 1..Len(js_tokens) :
                IsFree(c) /\ ScopeOf(c) # 0 /\ js_tokens[c].text = js_tokens[d].text
    /\ \E d \in 1..Len(js_tokens) : IsRootDeclaration(d) /\ IsFunctionName(d)

\* find_variables_2 has returned
ParametersBound == phase = "minify" /\ pc \in {"find_free_variables", "rename_variables", "done"}

\* C20 (as claimed): once find_variables_2 has returned, the symbol table of
\* the body scope of every function, at any nesting depth, holds each of the
\* function's parameters under its name.
C20_ParametersDeclared ==
    ParametersBound =>
        \A p \in 1..Len(js_tokens) :
            (IsParameter(p) /\ BodyOf(p) # 0) =>
                /\ js_tokens[p].text \in DOMAIN symbol_table[BodyOf(p)]
                /\ symbol_table[BodyOf(p)][js_tokens[p].text] = p

-----------------------------------------------------------------------------
(* Properties of tokenize on a tree with child nodes.                      *)

\* this step is the call of tokenize on a node of a class to enter
EntersChild ==
    /\ phase = "tokenize"
    /\ Len(calls') = Len(calls) + 1
    /\ Last(calls').append

\* this step is the return of that call to a caller with an open token
LeavesChild ==
    /\ phase = "tokenize"
    /\ Len(calls') = Len(calls) - 1
    /\ Last(calls).append
    /\ Last(calls).token_stack # <<>>

\* C15 (as claimed): a child of a class to enter is tokenized as an
\* independent nested parse: the nested call starts with the open-token
\* stack [child] and the state stack ['root'], and when it returns the caller
\* has the state stack and the open-token stack it had at the call, and the
\* child has become the last child of the caller's open token.
C15_IndependentParse ==
    [][/\ EntersChild =>
            /\ token_stack' = <<Last(calls').tree>>
            /\ state_stack' = <<"root">>
       /\ LeavesChild =>
            /\ state_stack' = Last(calls).state_stack
            /\ token_stack' = Last(calls).token_stack
            /\ pc' = "nodes"
            /\ Last(nodes'[Last(token_stack')].children) = NodeChild(Last(calls).tree)]_vars

\* this step is the call of tokenize on a node of a class to replace by its
\* parsed content
EntersContent ==
    /\ phase = "tokenize"
    /\ Len(calls') = Len(calls) + 1
    /\ ~Last(calls').append

\* this step is the return of that call
LeavesContent ==
    /\ phase = "tokenize"
    /\ Len(calls') = Len(calls) - 1
    /\ ~Last(calls).append

IsPrefix(s, t) == Len(s) <= Len(t) /\ SubSeq(t, 1, Len(s)) = s

\* the node is the child of no node
NotInOutput(id) ==
    \A parent \in 1..Len(nodes) : \A k \in 1..Len(nodes[parent].children) :
        nodes[parent].children[k] # NodeChild(id)

\* C16: a child of a class to replace by its parsed content is entered
\* transparently: the nested call works on the caller's state stack and
\* open-token stack and leaves them to the caller as they are when it
\* returns; every token is appended at the end of the children of the token
\* that is open, and the child itself is no part of the output and receives
\* no token.
C16_TransparentEntry ==
    [][/\ EntersContent =>
            /\ state_stack' = state_stack
            /\ token_stack' = token_stack
       /\ LeavesContent =>
            /\ state_stack' = state_stack
            /\ token_stack' = token_stack
            /\ nodes' = nodes
       /\ phase = "tokenize" =>
            /\ \A id \in 1..Len(nodes) : IsPrefix(nodes[id].children, nodes'[id].children)
            /\ \A id \in 1..Len(nodes') :
                  nodes'[id].name \in ClassesToReplaceByParsedContent =>
                      nodes'[id].children = <<>> /\ NotInOutput(id)']_vars

-----------------------------------------------------------------------------
(* Properties of the actions of tokenize.                                  *)

\* the call was ended by an Error action
ErrorRaised ==
    /\ phase = "tokenize"
    /\ pc = "raised"
    /\ raised.type = "CompileException"
    /\ raised.message \notin {"Token mismatch", "not terminated"}

\* C17 (as claimed): an Error action at read position p of the run s raises
\* CompileException with the current line, column and path and with the part
\* of s from max(0, p - 20) up to p + 20, whatever p is.
C17_ErrorSnippet ==
    ErrorRaised =>
        /\ raised.line = line
        /\ raised.column = column
        /\ raised.path = Path
        /\ raised.near = SubSeq(string, Max(0, position - SnippetWindow) + 1,
                                Min(Len(string), position + SnippetWindow))

\* the action list that the next step of the rule loop runs, <<>> if none
NextActions ==
    IF phase = "tokenize" /\ pc = "lex" /\ state_stack # <<>>
    THEN LET transitions == StateTable(states)[Last(state_stack)]
             rule == FirstMatch(transitions, Remaining(string, position))
         IN  IF rule = 0 THEN <<>> ELSE transitions[rule].actions
    ELSE <<>>

\* the next step runs a StopToken on the open-token stack as it is now, and
\* no other action of the list touches that stack
StopsToken ==
    /\ NextActions # <<>>
    /\ NextActions[1].a = "StopToken"
    /\ \A k \in 2..Len(NextActions) : NextActions[k].a \notin {"StartToken", "StopToken"}
    /\ token_stack # <<>>

Mismatch ==
    /\ NextActions[1].name # ""
    /\ nodes[Last(token_stack)].name # NextActions[1].name

\* C18: a StopToken that names a kind other than that of the token on top
\* of the open-token stack raises CompileException 'Token mismatch' with the
\* current line, column and path and pops nothing; a StopToken that names
\* the kind of the top token, or no kind, pops exactly that one token.
C18_TokenMismatch ==
    [][(StopsToken /\ vars' # vars) =>
          IF Mismatch
          THEN /\ pc' = "raised"
               /\ raised' = CompileException(line, column, Path, "Token mismatch", "", <<>>)
               /\ token_stack' = token_stack
               /\ stopped' = stopped
          ELSE /\ token_stack' = Front(token_stack)
               /\ stopped' = stopped + 1
               /\ raised'.message # "Token mismatch"]_vars

\* a StopToken that named a kind raised while the root was on top of the
\* open-token stack, after an earlier StopToken had popped a token
C18_Witness ==
    /\ phase = "tokenize"
    /\ pc = "raised"
    /\ raised.message = "Token mismatch"
    /\ token_stack = <<1>>
    /\ stopped > 0

-----------------------------------------------------------------------------
(* Properties of the compile_templates command.                            *)

\* compile has raised a fatal error of the core for the template at hand
FatalError == queue # <<>> /\ pc = "raised" /\ raised.type = "CompileException"

\* the error of the template at hand is recorded, nothing is written for it
\* and the loop is at the next template
ErrorHandled ==
    /\ errors' = Append(errors, [template |-> queue_index, error |-> raised])
    /\ written' = written
    /\ queue_index' = queue_index + 1
    /\ pc' = "queue"

\* the loop over the queue is over: every template had its turn
QueueProcessed == pc = "processed" /\ queue_index = Len(queue) + 1

\* C19: in a batch run a fatal error of the core in one template aborts
\* only that template: no output file is written for it, the error is
\* recorded, and every remaining template of the queue is still compiled
C19_BatchIsolation ==
    /\ [][FatalError => ErrorHandled]_vars
    /\ [](\A e \in 1..Len(errors) : errors[e].template \notin written)
    /\ (FatalError ~> QueueProcessed)

\* find_free_variables has run
FreeVariablesFound == phase = "minify" /\ pc \in {"rename_variables", "done"}

\* the scopes around c, js_node included, whose symbol table holds its name
ScopesHolding(c) ==
    {s \in Enclosing(c) \cup {0} : js_tokens[c].text \in DOMAIN symbol_table[s]}

\* C21 (as claimed): after the free-variable resolution every variable token
\* that is not immediately preceded by the '.' operator is linked to the
\* declaring token of the innermost scope around it whose symbol table holds
\* its name, or, when there is none, its name is in global_variable_names;
\* the variable tokens immediately preceded by '.' are neither linked nor
\* recorded.
C21_EveryVariableResolved ==
    FreeVariablesFound =>
        \A c \in 1..Len(js_tokens) :
            IsKind(js_tokens, c, "js-varname") =>
                IF IsOccurrence(c)
                THEN IF ScopesHolding(c) # {}
                     THEN LET s == CHOOSE i \in ScopesHolding(c) :
                                       \A o \in ScopesHolding(c) : o <= i
                          IN  link_to[c] = symbol_table[s][js_tokens[c].text]
                     ELSE \E k \in DOMAIN global_variable_names :
                              global_variable_names[k] = js_tokens[c].text
                ELSE link_to[c] = 0

-----------------------------------------------------------------------------
(* Properties of the generation of names.                                  *)

\* the n-th identifier of the sequence a, b, ..., z, aa, ab, ..., most
\* significant letter first
RECURSIVE Base26(_)
Base26(n) ==
    IF n <= Len(Lowercase) THEN <<Lowercase[n]>>
    ELSE Append(Base26((n - 1) \div Len(Lowercase)), Lowercase[((n - 1) % Len(Lowercase)) + 1])

\* the first identifier of that sequence that is not in `used`
FirstOfSequence(used) ==
    Base26(CHOOSE n \in 1..(MaxSymbols + Cardinality(used)) :
               /\ Base26(n) \notin used
               /\ \A m \in 1..(n - 1) : Base26(m) \in used)

\* C22 (as claimed): every symbol receives the first identifier of the
\* sequence a, b, ..., z, aa, ab, ... that is no reserved keyword, is not in
\* the global must-avoid set and was not handed out before by this scope or
\* a scope around it.
C22_FirstFreeName ==
    [][new_names' # new_names =>
          Last(new_names') = FirstOfSequence(names_to_avoid \cup JS_KEYWORDS)]_vars

\* the positions in an action list of its StartToken actions, in order
RECURSIVE StartTokensOf(_, _)
StartTokensOf(action_list, k) ==
    IF k > Len(action_list) THEN <<>>
    ELSE (IF action_list[k].a = "StartToken" THEN <<k>> ELSE <<>>)
         \o StartTokensOf(action_list, k + 1)

\* a Shift stands before position k of the action list
ShiftedBefore(action_list, k) == \E j \in 1..(k - 1) : action_list[j].a = "Shift"

-----------------------------------------------------------------------------
(* Properties of nest_block_level_elements: the calls of process_params    *)
(* and the order of the nodes.                                             *)

\* the calls of process_params made for node c
CallsFor(c) == {k \in DOMAIN processed : processed[k][1] = c}

\* the children a node of the stream is given with: an element of its own
OwnChildren == <<0>>

\* C24: every recognised opening marker is passed to process_params exactly
\* once, with its own children as they were before the call; its children
\* are emptied by the same step, so the nodes that follow it in the stream
\* are in none of the lists passed and enter the block after the call.
C24_ProcessParamsOnce ==
    /\ [](phase = "nest" =>
            /\ \A c \in 1..Len(flat) :
                  Cardinality(CallsFor(c)) =
                      IF c < cursor /\ CheckValue(flat[c]) \in DOMAIN Mappings THEN 1 ELSE 0
            /\ \A k \in DOMAIN processed : processed[k][2] = OwnChildren)
    /\ [][(phase = "nest" /\ processed' # processed) =>
            /\ processed' = Append(processed, <<cursor, child_lists[cursor][0]>>)
            /\ child_lists'[cursor][0] = <<>>]_vars

\* process_params was called for a block inside another block, and a node
\* that follows the inner marker has been moved into the inner block
C24_Witness ==
    /\ phase = "nest"
    /\ Len(processed) = 2
    /\ Len(moving_to_node) = 2
    /\ child_lists[processed[2][1]][0] = <<processed[2][1] + 1>>

\* the child at the cursor is a recognised opening marker
AtOpeningMarker ==
    NestScanning /\ IsGivenClass(flat[cursor]) /\ CheckValue(flat[cursor]) \in DOMAIN Mappings

\* the child at the cursor is the closing marker of the innermost open block
AtClosingMarker ==
    /\ NestScanning
    /\ ~AtOpeningMarker
    /\ moving_to_node # <<>>
    /\ CheckValue(flat[cursor]) = Last(Last(tags_stack))

\* the list of the innermost open block that is being filled
TargetList(lists) ==
    IF list_index \in DOMAIN lists[Last(moving_to_node)]
    THEN lists[Last(moving_to_node)][list_index]
    ELSE <<>>

\* the child at the cursor is appended to the list being filled of the
\* innermost open block, and to no other list
MovedToInnermost ==
    /\ child_lists'[Last(moving_to_node)][list_index] = Append(TargetList(child_lists), cursor)
    /\ \A node \in DOMAIN child_lists : \A k \in DOMAIN child_lists[node] :
          (node # Last(moving_to_node) \/ k # list_index) =>
              (child_lists'[node][k] = child_lists[node][k] \/ (node = cursor /\ AtOpeningMarker))
    /\ tree_children' = Remove(tree_children, cursor)

\* C25: an opening marker met while a block is open is appended to the list
\* being filled of the innermost open block and becomes the innermost open
\* block; a closing marker closes the innermost open block only, and the
\* children after it go to the block around it again.  The children
\* [B1, x, B2, y, E2, z, E1] end as tree.children = [B1],
\* B1.children = [x, B2, z], B2.children = [y].
C25_BlocksNest ==
    /\ [][(AtOpeningMarker /\ moving_to_node # <<>>) =>
              (MovedToInnermost /\ moving_to_node' = Append(moving_to_node, cursor))]_vars
    /\ [][AtClosingMarker =>
              (/\ moving_to_node' = Front(moving_to_node)
               /\ tags_stack' = Front(tags_stack)
               /\ child_lists' = child_lists)]_vars
    /\ [][(NestScanning /\ moving_to_node # <<>> /\ CheckValue(flat[cursor]) \in {"None", "Tag"}) =>
              (MovedToInnermost /\ moving_to_node' = moving_to_node)]_vars
    /\ []((phase = "nest" /\ pc = "done" /\ flat \in NestedBlocks) =>
              /\ tree_children = <<1>>
              /\ child_lists[1][0] = <<2, 3, 6>>
              /\ child_lists[3][0] = <<4>>)

\* the scan of [B1, x, B2, y, E2, z, E1] is over
C25_Witness == phase = "nest" /\ pc = "done" /\ flat \in NestedBlocks

\* the child at the cursor is an interior marker of the innermost open block
AtInteriorMarker ==
    /\ NestScanning
    /\ ~AtOpeningMarker
    /\ moving_to_node # <<>>
    /\ \E k \in 1..(Len(Last(tags_stack)) - 1) : Last(tags_stack)[k] = CheckValue(flat[cursor])

\* the interior and closing names the mapping gives the open block `node`
MarkersOf(node) ==
    LET m == Mappings[CheckValue(flat[node])] IN SubSeq(m, 1, Len(m) - 1)

\* the index of the list an open block fills: the number of its marker
\* names that are used up
IndexOfFrame(k) == Len(MarkersOf(moving_to_node[k])) - Len(tags_stack[k])

\* C26 (as claimed): the index of the list being filled belongs to the
\* block: while a block is open the list being filled is the one its own
\* interior markers have advanced it to (the primary list for a block just
\* opened, the list of before again once an inner block is closed), and an
\* interior marker advances the list of the innermost open block only.
C26_IndexPerFrame ==
    /\ []((phase = "nest" /\ pc = "scan" /\ moving_to_node # <<>>) =>
              list_index = IndexOfFrame(Len(moving_to_node)))
    /\ [][AtInteriorMarker =>
              (/\ pc' = "scan"
               /\ moving_to_node' = moving_to_node
               /\ list_index' = IndexOfFrame(Len(moving_to_node)) + 1
               /\ Front(tags_stack') = Front(tags_stack)
               /\ child_lists' = child_lists)]_vars

\* the closing name and the interior names of a block, by its opening name
ClosingName(opening) == Mappings[opening][Len(Mappings[opening]) - 1]
InteriorNames(opening) ==
    {Mappings[opening][k] : k \in 1..(Len(Mappings[opening]) - 2)}

\* the blocks that are open when child k of the stream is met, the outermost
\* first, read off the stream alone
RECURSIVE OpenBefore(_)
OpenBefore(k) ==
    IF k = 1 THEN <<>>
    ELSE LET open == OpenBefore(k - 1)
         IN  IF CheckValue(flat[k - 1]) \in DOMAIN Mappings THEN Append(open, k - 1)
             ELSE IF open # <<>> /\ flat[k - 1] = ClosingName(flat[Last(open)])
             THEN Front(open)
             ELSE open

\* a closing or interior marker of the block that is open around it
IsRecognisedMarker(c) ==
    /\ OpenBefore(c) # <<>>
    /\ CheckValue(flat[c]) \in {ClosingName(flat[Last(OpenBefore(c))])}
                                  \cup InteriorNames(flat[Last(OpenBefore(c))])

\* where node c stands in tree.children
InTree(c) == {j \in DOMAIN tree_children : tree_children[j] = c}

\* where node c stands in the lists of the blocks: <<block, index, position>>
InBlocks(c) ==
    {p \in (DOMAIN child_lists) \X (0..Len(Mappings["Begin"])) \X (1..Len(flat)) :
        /\ p[2] \in DOMAIN child_lists[p[1]]
        /\ p[3] \in DOMAIN child_lists[p[1]][p[2]]
        /\ child_lists[p[1]][p[2]][p[3]] = c}

\* the nodes of the stream in the list come in the order of the stream
InOriginalOrder(list) ==
    \A i \in DOMAIN list : \A j \in DOMAIN list :
        (i < j /\ list[i] # 0 /\ list[j] # 0) => list[i] < list[j]

-----------------------------------------------------------------------------
(* _validate_javascript on the children of one scope (js_processor.py,     *)
(* lines 478-612), the children being any tokens of the tokenizer: names,  *)
(* numbers, keywords, brackets, semicolons and scopes.                     *)

Number(text) == [kind |-> "js-number", text |-> text]

KwIf == <<"i","f">>
KwIn == <<"i","n">>

\* the longest list of children, the white space between them not counted
MaxScopeLen == 4

\* what the children of the scope are made of
ScopeWords ==
    {<<Variable(<<"x">>)>>, <<Number(<<"1">>)>>, <<Keyword(KwVar)>>, <<Keyword(KwIf)>>,
     <<Keyword(KwIn)>>, <<Operator(<<"(">>)>>, <<Operator(<<")">>)>>, <<Operator(<<"[">>)>>,
     <<Operator(<<"]">>)>>, <<Operator(<<";">>)>>, <<ScopeBegin, ScopeEnd>>}

\* the white space token that the text has between two names, keywords or
\* numbers (every other white space is part of an operator or scope token)
WordGap(before, after) ==
    IF /\ after # <<>>
       /\ Last(before).kind \in {"js-varname", "js-keyword", "js-number"}
       /\ after[1].kind \in {"js-varname", "js-keyword", "js-number"}
    THEN <<WhiteSpace>>
    ELSE <<>>

\* the lists of at most n of these
RECURSIVE ScopeChildren(_)
ScopeChildren(n) ==
    IF n = 0 THEN {<<>>}
    ELSE {<<>>} \cup UNION {{w \o WordGap(w, p) \o p : p \in ScopeChildren(n - 1)} :
                               w \in ScopeWords}

\* compile_javascript_string on the text  { children }
ValidateInit ==
    /\ phase = "minify"
    /\ TokenizeIdle
    /\ NestIdle
    /\ BatchIdle
    /\ js_tokens \in {<<ScopeBegin>> \o p \o <<ScopeEnd>> : p \in ScopeChildren(MaxScopeLen)}
    /\ symbol_table = [node \in {0} \cup Scopes(js_tokens) |-> EmptyTable]
    /\ link_to = [c \in 1..Len(js_tokens) |-> 0]
    /\ varname = [c \in 1..Len(js_tokens) |-> <<>>]
    /\ global_variable_names = <<>>
    /\ names_to_avoid = {}
    /\ new_names = <<>>
    /\ child_index = 0
    /\ semi_required = FALSE
    /\ pc = "validate"
    /\ raised = NoException

ValidateNext == ValidateJavascript

ValidateSpec == ValidateInit /\ [][ValidateNext]_vars

-----------------------------------------------------------------------------
(* Properties of _validate_javascript on the children of a scope.          *)

IsOpening(t, c) == IsOperator(t, c, <<"(">>) \/ IsOperator(t, c, <<"[">>)
IsClosing(t, c) == IsOperator(t, c, <<")">>) \/ IsOperator(t, c, <<"]">>)

\* the opening bracket that a closing bracket closes
OpeningOf(text) == IF text = <<")">> THEN <<"(">> ELSE <<"[">>

\* the opening brackets among the children before child i that nothing has
\* closed, the nearest last
RECURSIVE Unclosed(_, _, _)
Unclosed(t, kids, i) ==
    IF i = 1 THEN <<>>
    ELSE LET open == Unclosed(t, kids, i - 1)
             c == kids[i - 1]
         IN  IF IsOpening(t, c) THEN Append(open, t[c].text)
             ELSE IF IsClosing(t, c) /\ open # <<>> /\ Last(open) = OpeningOf(t[c].text)
             THEN Front(open)
             ELSE open

\* child i is a closing bracket with no opening bracket to close
ClosesNothing(t, kids, i) == IsClosing(t, kids[i]) /\ Unclosed(t, kids, i) = <<>>

\* child i is a closing bracket and the nearest unclosed opening bracket is
\* of the other kind
ClosesOtherKind(t, kids, i) ==
    /\ IsClosing(t, kids[i])
    /\ Unclosed(t, kids, i) # <<>>
    /\ Last(Unclosed(t, kids, i)) # OpeningOf(t[kids[i]].text)

\* C28: when the children of a scope have a ')' or ']' whose nearest
\* unclosed opening bracket of the scope is absent or of the other kind,
\* validation raises a CompileException.
C28_UnmatchedClosingRaises ==
    Validated =>
        \A scope \in Scopes(js_tokens) :
            LET kids == Children(js_tokens, scope)
            IN  (\E i \in DOMAIN kids : \/ ClosesNothing(js_tokens, kids, i)
                                       \/ ClosesOtherKind(js_tokens, kids, i))
                    => raised.type = "CompileException"

\* child i stands between no brackets of the scope
OutsideBrackets(t, kids, i) == Unclosed(t, kids, i) = <<>>

\* the nearest child before child i that is no white space, or 0
RECURSIVE PreviousToken(_, _, _)
PreviousToken(t, kids, i) ==
    IF i = 1 THEN 0
    ELSE IF IsKind(t, kids[i - 1], "js-whitespace") THEN PreviousToken(t, kids, i - 1)
    ELSE kids[i - 1]

\* what a 'var' may follow
EndsStatement(t, c) ==
    \/ IsOperator(t, c, <<";">>)
    \/ IsOperator(t, c, <<"{">>)
    \/ IsOperator(t, c, <<"}">>)
    \/ IsKind(t, c, "js-scope")

\* (a) child i is a 'var' behind a token that does not end a statement
VarInStatement(t, kids, i) ==
    /\ IsKind(t, kids[i], "js-keyword")
    /\ t[kids[i]].text = KwVar
    /\ OutsideBrackets(t, kids, i)
    /\ PreviousToken(t, kids, i) # 0
    /\ ~EndsStatement(t, PreviousToken(t, kids, i))

IsBlockKeyword(t, c) == IsKind(t, c, "js-keyword") /\ t[c].text \in BlockKeywords

\* the opening bracket of the group that child j closes, a position in kids
RECURSIVE OpenedAt(_, _, _, _)
OpenedAt(t, kids, j, depth) ==
    IF j = 0 THEN 0
    ELSE IF IsOpening(t, kids[j]) THEN (IF depth = 0 THEN j ELSE OpenedAt(t, kids, j - 1, depth - 1))
    ELSE IF IsClosing(t, kids[j]) THEN OpenedAt(t, kids, j - 1, depth + 1)
    ELSE OpenedAt(t, kids, j - 1, depth)

\* the '(' at position o opens the parameter list of a block keyword: the
\* keyword, for 'function' a name, and white space stand before it
RECURSIVE ParametersOfKeyword(_, _, _, _)
ParametersOfKeyword(t, kids, o, named) ==
    IF o = 1 THEN FALSE
    ELSE LET c == kids[o - 1]
         IN  IF IsKind(t, c, "js-whitespace") THEN ParametersOfKeyword(t, kids, o - 1, named)
             ELSE IF IsBlockKeyword(t, c) THEN (~named \/ t[c].text = KwFunction)
             ELSE IF IsKind(t, c, "js-varname") /\ ~named
             THEN ParametersOfKeyword(t, kids, o - 1, TRUE)
             ELSE FALSE

\* what stands before position j + 1 when the tokens that are neither
\* operator nor scope nor name are passed over: "name", "group" for a closed
\* '(...)' or '[...]' that is no parameter list of a block keyword, or
\* "other"
RECURSIVE Before(_, _, _)
Before(t, kids, j) ==
    IF j = 0 THEN "other"
    ELSE LET c == kids[j]
         IN  IF IsKind(t, c, "js-varname") THEN "name"
             ELSE IF IsClosing(t, c)
             THEN LET o == OpenedAt(t, kids, j - 1, 0)
                  IN  IF o = 0 THEN "other"
                      ELSE IF IsOperator(t, kids[o], <<"(">>) /\ ParametersOfKeyword(t, kids, o, FALSE)
                      THEN "other"
                      ELSE "group"
             ELSE IF IsKind(t, c, "js-operator") \/ IsKind(t, c, "js-scope") \/ IsBlockKeyword(t, c)
             THEN "other"
             ELSE Before(t, kids, j - 1)

\* (b) child i is a name or a block keyword behind a name or a closed group
NameInStatement(t, kids, i) ==
    /\ IsKind(t, kids[i], "js-varname") \/ IsBlockKeyword(t, kids[i])
    /\ OutsideBrackets(t, kids, i)
    /\ Before(t, kids, i - 1) \in {"name", "group"}

\* C29: when the children of a scope have (a) a 'var' whose previous token
\* that is no white space, at any index, the first included, is none of ';',
\* '{', '}' and a scope, or (b) a name or block keyword behind a name or a
\* closed '(...)' or '[...]' group with no operator or scope in between,
\* validation raises a CompileException (the one of the missing semicolon
\* when nothing else is wrong with the scope).
C29_MissingSemicolonInScope ==
    Validated =>
        \A scope \in Scopes(js_tokens) :
            LET kids == Children(js_tokens, scope)
            IN  (\E i \in DOMAIN kids : \/ VarInStatement(js_tokens, kids, i)
                                       \/ NameInStatement(js_tokens, kids, i))
                    => raised.type = "CompileException"

-----------------------------------------------------------------------------
(* Properties of the order of the passes of compile_javascript_string.     *)

\* the passes after tokenize in the order claimed: the discovery of the
\* scopes and their declarations, the resolution of the free variables, the
\* generation of the names with the rewrite, and validation
ClaimedOrder ==
    <<"find_variables", "find_variables_2", "find_free_variables", "rename_variables",
      "validate", "done">>

\* C30 (as claimed): the passes run in the order scope discovery,
\* free-variable resolution, name generation and rewrite, validation: every
\* pass that does not raise is followed by the next of this order, and
\* validation by the end of the call.
C30_ValidationLast ==
    [][phase = "minify" =>
          \/ pc' = "raised"
          \/ \E k \in 1..(Len(ClaimedOrder) - 1) :
                pc = ClaimedOrder[k] /\ pc' = ClaimedOrder[k + 1]]_vars

-----------------------------------------------------------------------------
(* _compress_javascript_whitespace and fix_whitespace_bug (js_processor.py, *)
(* lines 237-257 and 448-462) on a script with template tags among its     *)
(* tokens, as compile_javascript meets it.                                 *)

\* a template tag among the children: it renders as it was written
DjangoTagToken == [kind |-> "django-tag", text |-> <<"{", "%", "t", "%", "}">>]

\* white space and an operator as the tokenizer records them
RawWhiteSpace == [kind |-> "js-whitespace", text |-> <<"\n", " ">>]
RawOperator   == Operator(<<";", " ">>)

\* Token(name='required-whitespace') with children [' ']
RequiredWhiteSpace == [kind |-> "required-whitespace", text |-> <<" ">>]

\* str.strip()
RECURSIVE strip(_)
strip(text) ==
    IF text = <<>> THEN text
    ELSE IF Head(text) \in Whitespace THEN strip(Tail(text))
    ELSE IF Last(text) \in Whitespace THEN strip(Front(text))
    ELSE text

\* node c is the first or the last child of js_node or of a scope
IsOuterChild(t, c) ==
    \E node \in {0} \cup Scopes(t) :
        LET kids == Children(t, node)
        IN  kids # <<>> /\ (kids[1] = c \/ Last(kids) = c)

\* lines 241-257: white space tokens become one space, operators lose the
\* white space around them, and then the first and the last child of every
\* node, when white space, become empty
compress_javascript_whitespace(t) ==
    [c \in DOMAIN t |->
        IF IsKind(t, c, "js-whitespace")
        THEN [t[c] EXCEPT !.text = IF IsOuterChild(t, c) THEN <<>> ELSE <<" ">>]
        ELSE IF IsKind(t, c, "js-operator")
        THEN [t[c] EXCEPT !.text = strip(t[c].text)]
        ELSE t[c]]

\* scope.children[0].output_as_string()[0:1] for the child at c
FirstRendered(t, c) ==
    IF IsKind(t, c, "js-scope") THEN <<"{">>
    ELSE SubSeq(t[c].text, 1, IF t[c].text = <<>> THEN 0 ELSE 1)

\* lines 457-462: the tokens with the space inserted in every scope whose
\* first child renders a '{' first
RECURSIVE fix_whitespace_bug(_, _)
fix_whitespace_bug(t, i) ==
    IF i > Len(t) THEN <<>>
    ELSE IF /\ IsKind(t, i, "js-scope")
            /\ ~IsKind(t, i + 1, "end")
            /\ FirstRendered(t, i + 1) = <<"{">>
    THEN <<t[i], RequiredWhiteSpace>> \o fix_whitespace_bug(t, i + 1)
    ELSE <<t[i]>> \o fix_whitespace_bug(t, i + 1)

WhitespaceAt(step) == phase = "whitespace" /\ pc = step

WhitespaceUnchanged ==
    UNCHANGED <<phase, raised, tokVars, nestVars, batchVars, symbol_table, link_to, varname,
                global_variable_names, names_to_avoid, new_names, child_index,
                semi_required>>

\* compile_javascript, line 633
CompressJavascriptWhitespace ==
    /\ WhitespaceAt("compress")
    /\ js_tokens' = compress_javascript_whitespace(js_tokens)
    /\ pc' = "fix_whitespace_bug"
    /\ WhitespaceUnchanged

\* compile_javascript, line 638
FixWhitespaceBug ==
    /\ WhitespaceAt("fix_whitespace_bug")
    /\ js_tokens' = fix_whitespace_bug(js_tokens, 1)
    /\ pc' = "done"
    /\ WhitespaceUnchanged

\* the longest script, in tokens, and the most scopes in it
MaxScriptLen == 5
MaxScriptScopes == 2

\* what the scripts are made of besides scopes
ScriptWords == {<<Variable(<<"x">>)>>, <<RawWhiteSpace>>, <<DjangoTagToken>>, <<RawOperator>>}

\* compile_javascript(js_node) after tokenize and the parser extensions
WhitespaceInit ==
    /\ phase = "whitespace"
    /\ TokenizeIdle
    /\ NestIdle
    /\ BatchIdle
    /\ js_tokens \in ProgramsOf(ScriptWords, MaxScriptLen, MaxScriptScopes, 0)
    /\ symbol_table = <<>>
    /\ link_to = <<>>
    /\ varname = <<>>
    /\ global_variable_names = <<>>
    /\ names_to_avoid = {}
    /\ new_names = <<>>
    /\ child_index = 0
    /\ semi_required = FALSE
    /\ pc = "compress"
    /\ raised = NoException

WhitespaceNext ==
    \/ CompressJavascriptWhitespace
    \/ FixWhitespaceBug

WhitespaceSpec == WhitespaceInit /\ [][WhitespaceNext]_vars

\* js_node.output_as_string() from token c on
RECURSIVE Rendered(_, _)
Rendered(t, c) == IF c > Len(t) THEN <<>> ELSE t[c].text \o Rendered(t, c + 1)

\* C31: after compilation no scope renders its '{' with another '{' directly
\* behind it, and the space that keeps them apart is a single one that
\* stands before a '{'.
C31_NoDoubleBrace ==
    WhitespaceAt("done") =>
        \A scope \in Scopes(js_tokens) :
            /\ Rendered(js_tokens, scope + 1)[1] # "{"
            /\ IsKind(js_tokens, scope + 1, "required-whitespace") =>
                  /\ Rendered(js_tokens, scope + 2)[1] = "{"
                  /\ ~IsKind(js_tokens, scope + 2, "required-whitespace")

-----------------------------------------------------------------------------
(* Properties of the JavaScript grammar: division and regex objects.       *)

\* the text recorded first in node id
RecordedFirst(ns, id) == IF ns[id].children = <<>> THEN <<>> ELSE ns[id].children[1].text

\* the last token created that is no white space, or 0 (comments leave no
\* token)
RECURSIVE LastTokenBefore(_, _)
LastTokenBefore(ns, id) ==
    IF id <= 1 THEN 0
    ELSE IF ns[id].name = "js-whitespace" THEN LastTokenBefore(ns, id - 1)
    ELSE id

\* the last token is a name, a number or a closing ')' or ']'
FollowsOperand(ns) ==
    LET last == LastTokenBefore(ns, Len(ns))
    IN  /\ last # 0
        /\ \/ ns[last].name \in {"js-varname", "js-number"}
           \/ /\ ns[last].name = "js-operator"
              /\ strip(RecordedFirst(ns, last)) \in {<<")">>, <<"]">>}

\* the token is made of a '/' that starts no comment
IsDivision(ns, id) ==
    ns[id].name = "js-operator" /\ strip(RecordedFirst(ns, id)) = <<"/">>
IsRegexObject(ns, id) == ns[id].name = "js-regex-object"

\* C32: with the JavaScript grammar the token made of a '/' that starts no
\* comment is a division operator when the last token before it, white
\* space and comments passed over, is a name, a number or a closing ')' or
\* ']', and the start of a regex object in every other position.
C32_DivisionOrRegex ==
    [][(/\ phase = "tokenize"
        /\ states = "js"
        /\ pc = "lex"
        /\ Len(nodes') = Len(nodes) + 1
        /\ IsDivision(nodes', Len(nodes')) \/ IsRegexObject(nodes', Len(nodes')))
       => (IsDivision(nodes', Len(nodes')) <=> FollowsOperand(nodes))]_vars

\* the children are the statement  x in x;
IsKeywordOperatorStatement(t, kids) ==
    /\ Len(kids) = 6
    /\ IsKind(t, kids[1], "js-varname")
    /\ IsKind(t, kids[2], "js-whitespace")
    /\ IsKind(t, kids[3], "js-keyword") /\ t[kids[3]].text = KwIn
    /\ IsKind(t, kids[4], "js-whitespace")
    /\ IsKind(t, kids[5], "js-varname")
    /\ IsOperator(t, kids[6], <<";">>)

\* C33: a scope that holds one statement ended by ';' in which two names are
\* separated by a keyword operator only (x in x;) passes validation.
C33_KeywordOperatorAccepted ==
    Validated =>
        \A scope \in Scopes(js_tokens) :
            IsKeywordOperatorStatement(js_tokens, Children(js_tokens, scope))
                => raised = NoException

-----------------------------------------------------------------------------
(* Properties of the Django template grammar.                              *)

DjangoTokenizing == phase = "tokenize" /\ states = "django"

\* C34: with the Django template grammar, after every rule that has not
\* raised the state stack is as deep as the stack of open tokens, and a
\* call that ends with only the starting node open ends in the state
\* 'root'.
C34_StacksInStep ==
    (DjangoTokenizing /\ pc # "raised") =>
        /\ Len(state_stack) = Len(token_stack)
        /\ pc = "done" => state_stack = <<"root">>

\* a variable was opened and closed, a tag as well, and the call has ended
C34_Witness ==
    /\ DjangoTokenizing
    /\ pc = "done"
    /\ \E i \in DOMAIN nodes : nodes[i].name = "django-variable"
    /\ \E i \in DOMAIN nodes : nodes[i].name = "django-tag"

\* C35: in every state of the Django template grammar some rule matches the
\* text that is left, and every pass of the rule loop either moves the read
\* position forward or raises.
C35_DjangoAlwaysProgresses ==
    /\ []((DjangoTokenizing /\ pc = "lex" /\ state_stack # <<>>) =>
             FirstMatch(StateTable(states)[Last(state_stack)],
                        Remaining(string, position)) # 0)
    /\ [][(DjangoTokenizing /\ pc = "lex") =>
             (pc' = "raised" \/ position' > position)]_vars

\* ---------------------------------------------------------------------------
\* C36: the stacks of tokenize never underflow
\* ---------------------------------------------------------------------------

\* the node the running call of tokenize started on: the node of the
\* innermost call that has an open-token stack of its own (line 48), or
\* the node of the outermost call
RECURSIVE StartingNode(_)
StartingNode(frames) ==
    IF frames = <<>> THEN 1
    ELSE IF ~Last(frames).shares_tokens THEN Last(frames).tree
    ELSE StartingNode(Front(frames))

\* C36: throughout a call of tokenize neither stack underflows: the
\* open-token stack is never empty and its bottom element is the node the
\* call started on, the state stack keeps its "root" frame at the bottom, and
\* the only exception a call ends with is a CompileException (a StopToken
\* with only the starting node open, or a Pop in the "root" frame, is
\* reported and pops nothing).
C36_NoUnderflow ==
    phase = "tokenize" =>
        /\ raised.type \in {"none", "CompileException"}
        /\ pc # "raised" =>
              /\ token_stack # <<>>
              /\ token_stack[1] = StartingNode(calls)
              /\ state_stack # <<>>
              /\ state_stack[1] = "root"

\* ---------------------------------------------------------------------------
\* C37: token imbalance inside an entered child
\* ---------------------------------------------------------------------------

\* the tokens that StartToken has opened, in the outermost call and in every
\* nested one: the nodes of the output that are not nodes of the input
OpenedTokens ==
    {id \in 2..Len(nodes) :
        nodes[id].name \notin ClassesToReplaceByParsedContent \cup ClassesToEnter
                              \cup OtherClasses}

\* C37: token imbalance is detected at every nesting level: a token that was
\* opened inside an entered child and is still open when the content of the
\* child ends makes the outermost call raise "<kind> not terminated", so a
\* call that returns normally has closed every token it has opened, those
\* opened inside entered children included.
C37_ImbalanceDetectedInChild ==
    (phase = "tokenize" /\ pc = "done") => Cardinality(OpenedTokens) = stopped

\* ---------------------------------------------------------------------------
\* C38: closing and interior names that belong to no open block
\* ---------------------------------------------------------------------------

\* the closing and interior names of the mappings
MarkerNames ==
    UNION {{ClosingName(opening)} \cup InteriorNames(opening) : opening \in DOMAIN Mappings}

\* the interior names of the innermost open block that may still come
StillValidInterior ==
    IF tags_stack = <<>> THEN {}
    ELSE {Last(tags_stack)[k] : k \in 1..(Len(Last(tags_stack)) - 1)}

\* the child at the cursor has a closing or interior name, and no block is
\* open or the name is none of the innermost open block
AtUnrecognisedMarker ==
    /\ NestScanning
    /\ IsGivenClass(flat[cursor])
    /\ CheckValue(flat[cursor]) \in MarkerNames
    /\ \/ OpenBefore(cursor) = <<>>
       \/ /\ OpenBefore(cursor) # <<>>
          /\ CheckValue(flat[cursor]) # ClosingName(flat[Last(OpenBefore(cursor))])
          /\ CheckValue(flat[cursor]) \notin StillValidInterior

\* C38: a closing or interior marker name that is met while no block is
\* open, or that is neither the closing name nor a still-valid interior name
\* of the innermost open block, never raises and pops no block: with no
\* block open the child stays where it is in tree.children, otherwise it is
\* moved to the end of the current list of the innermost open block.
C38_StrayMarkerIsOrdinaryChild ==
    [][AtUnrecognisedMarker =>
          /\ pc' = "scan"
          /\ raised' = raised
          /\ cursor' = cursor + 1
          /\ moving_to_node' = moving_to_node
          /\ tags_stack' = tags_stack
          /\ list_index' = list_index
          /\ class_of' = class_of
          /\ IF OpenBefore(cursor) = <<>>
             THEN /\ tree_children' = tree_children
                  /\ child_lists' = child_lists
             ELSE LET frame == Last(OpenBefore(cursor))
                      old   == IF list_index \in DOMAIN child_lists[frame]
                               THEN child_lists[frame][list_index] ELSE <<>>
                  IN  /\ \A j \in DOMAIN tree_children' : tree_children'[j] # cursor
                      /\ Len(tree_children') = Len(tree_children) - 1
                      /\ list_index \in DOMAIN child_lists'[frame]
                      /\ child_lists'[frame][list_index] = Append(old, cursor)
                      /\ \A node \in DOMAIN child_lists : \A index \in DOMAIN child_lists[node] :
                            <<node, index>> # <<frame, list_index>> =>
                                child_lists'[node][index] = child_lists[node][index]]_vars

\* the scan is over for children with a closing name before every block,
\* which is still in tree.children, and a closing name of another kind
\* inside a block, which is in the list of that block
C38_Witness ==
    /\ phase = "nest"
    /\ pc = "done"
    /\ \E c \in 1..Len(flat) :
          flat[c] \in MarkerNames /\ OpenBefore(c) = <<>> /\ InTree(c) # {}
    /\ \E c \in 1..Len(flat) :
          /\ flat[c] \in MarkerNames
          /\ OpenBefore(c) # <<>>
          /\ \E p \in InBlocks(c) : p[1] = Last(OpenBefore(c))

-----------------------------------------------------------------------------
(* The main loop of _validate_javascript over the children of one scope    *)
(* (js_processor.py, lines 545-612), one pass of the loop per step.        *)

MaxWalkLen == 3

\* what the children of the scope are made of
WalkWords ==
    {<<Variable(<<"x">>)>>, <<Keyword(KwVar)>>, <<Keyword(KwFunction)>>, <<Keyword(KwIf)>>,
     <<Operator(<<"(">>)>>, <<Operator(<<")">>)>>, <<Operator(<<"[">>)>>,
     <<Operator(<<"]">>)>>, <<Operator(<<";">>)>>, <<ScopeBegin, ScopeEnd>>}

\* the lists of at most n of these
RECURSIVE WalkChildren(_)
WalkChildren(n) ==
    IF n = 0 THEN {<<>>}
    ELSE {<<>>} \cup UNION {{w \o WordGap(w, p) \o p : p \in WalkChildren(n - 1)} :
                               w \in WalkWords}

\* scope.children of the scope the loop of line 478 is at
WalkKids == Children(js_tokens, 1)

\* line 545: `while i[0] < len(scope.children)` with c = current_node()
Walking == phase = "minify" /\ pc = "walk" /\ child_index <= Len(WalkKids)

WalkCurrent == WalkKids[child_index]

WalkUnchanged ==
    UNCHANGED <<phase, tokVars, nestVars, batchVars, js_tokens, symbol_table, link_to,
                varname, global_variable_names, names_to_avoid, new_names>>

WalkRaises(exception) ==
    /\ pc' = "raised"
    /\ raised' = exception
    /\ UNCHANGED <<child_index, semi_required>>

\* a pass that ends without next()
WalkStaysPut(i, required) ==
    /\ child_index' = i
    /\ semi_required' = required
    /\ UNCHANGED <<pc, raised>>

\* line 612: next() at the end of a pass that has left the cursor at i
WalkGoesOn(i, required) ==
    /\ child_index' = i + 1
    /\ semi_required' = required
    /\ UNCHANGED <<pc, raised>>

\* lines 548-570: one of the keywords that start a block
WalkBlockKeyword ==
    /\ Walking
    /\ IsKind(js_tokens, WalkCurrent, "js-keyword")
    /\ js_tokens[WalkCurrent].text \in BlockKeywords
    /\ LET t == js_tokens
           kids == WalkKids
           named == IF t[WalkCurrent].text = KwFunction
                    THEN skip_optional_function_name(t, kids, child_index + 1)
                    ELSE child_index + 1
           bracket == IF named > Len(kids) THEN 0 ELSE go_to_open_bracket(t, kids, named)
       IN  IF semi_required THEN WalkRaises(MissingSemicolon(t, WalkCurrent))
           ELSE IF named > Len(kids) THEN WalkRaises(IndexError)
           ELSE IF bracket = 0
           THEN WalkRaises(NodeException(t, kids[named],
                    "Expected opening bracket. Please check your Javascript code."))
           ELSE IF bracket > Len(kids) THEN WalkRaises(IndexError)
           ELSE IF IsOperator(t, kids[bracket], <<"(">>)
           THEN WalkGoesOn(skip_parameter_list(t, kids, bracket) - 1, FALSE)
           ELSE WalkGoesOn(bracket - 1, FALSE)
    /\ WalkUnchanged

\* lines 572-581: var
WalkVar ==
    /\ Walking
    /\ IsKind(js_tokens, WalkCurrent, "js-keyword")
    /\ js_tokens[WalkCurrent].text = KwVar
    /\ LET last_token == get_last_non_whitespace_token(js_tokens, WalkKids, child_index)
       IN  IF \/ last_token = 0
              \/ IsOperator(js_tokens, last_token, <<"{">>)
              \/ IsOperator(js_tokens, last_token, <<"}">>)
              \/ IsOperator(js_tokens, last_token, <<";">>)
              \/ IsKind(js_tokens, last_token, "js-scope")
           THEN WalkGoesOn(child_index, semi_required)
           ELSE WalkRaises(MissingSemicolon(js_tokens, WalkCurrent))
    /\ WalkUnchanged

\* lines 583-597: an operator
WalkOperator ==
    /\ Walking
    /\ IsKind(js_tokens, WalkCurrent, "js-operator")
    /\ LET text == js_tokens[WalkCurrent].text
       IN  IF text = <<";">> \/ text = <<>> THEN WalkGoesOn(child_index, FALSE)
           ELSE IF text = <<"(">> \/ text = <<"[">>
           THEN WalkGoesOn(skip_parameter_list(js_tokens, WalkKids, child_index) - 1, TRUE)
           ELSE IF text = <<")">> \/ text = <<"]">>
           THEN WalkRaises(NodeException(js_tokens, WalkCurrent, "Unexpected closing bracket, did not find an opening match. Please check your Javascript code."))
           ELSE WalkGoesOn(child_index, FALSE)
    /\ WalkUnchanged

\* lines 599-600: a scope
WalkScope ==
    /\ Walking
    /\ IsKind(js_tokens, WalkCurrent, "js-scope")
    /\ WalkGoesOn(child_index, FALSE)
    /\ WalkUnchanged

\* lines 602-606: a name
WalkVariable ==
    /\ Walking
    /\ IsKind(js_tokens, WalkCurrent, "js-varname")
    /\ IF semi_required THEN WalkRaises(MissingSemicolon(js_tokens, WalkCurrent))
       ELSE WalkGoesOn(child_index, TRUE)
    /\ WalkUnchanged

\* lines 608-612: white space, and every token that no branch is for
WalkOther ==
    /\ Walking
    /\ ~(IsKind(js_tokens, WalkCurrent, "js-keyword")
         /\ js_tokens[WalkCurrent].text \in BlockKeywords \cup {KwVar})
    /\ ~IsKind(js_tokens, WalkCurrent, "js-operator")
    /\ ~IsKind(js_tokens, WalkCurrent, "js-scope")
    /\ ~IsKind(js_tokens, WalkCurrent, "js-varname")
    /\ WalkGoesOn(child_index, semi_required)
    /\ WalkUnchanged

\* line 545: the condition of the loop is false
WalkEnds ==
    /\ phase = "minify"
    /\ pc = "walk"
    /\ child_index > Len(WalkKids)
    /\ pc' = "done"
    /\ UNCHANGED <<raised, child_index, semi_required>>
    /\ WalkUnchanged

\* lines 478-543 for the text  { children }: i = [0], semi_colon_required = False
WalkInit ==
    /\ phase = "minify"
    /\ TokenizeIdle
    /\ NestIdle
    /\ BatchIdle
    /\ js_tokens \in {<<ScopeBegin>> \o p \o <<ScopeEnd>> : p \in WalkChildren(MaxWalkLen)}
    /\ symbol_table = [node \in {0} \cup Scopes(js_tokens) |-> EmptyTable]
    /\ link_to = [c \in 1..Len(js_tokens) |-> 0]
    /\ varname = [c \in 1..Len(js_tokens) |-> <<>>]
    /\ global_variable_names = <<>>
    /\ names_to_avoid = {}
    /\ new_names = <<>>
    /\ child_index = 1
    /\ semi_required = FALSE
    /\ pc = "walk"
    /\ raised = NoException

WalkNext ==
    \/ WalkBlockKeyword
    \/ WalkVar
    \/ WalkOperator
    \/ WalkScope
    \/ WalkVariable
    \/ WalkOther
    \/ WalkEnds

\* the loop is sequential code: a pass that can run does run
WalkSpec == WalkInit /\ [][WalkNext]_vars /\ WF_vars(WalkNext)

\* ---------------------------------------------------------------------------
\* C39: the walk terminates
\* ---------------------------------------------------------------------------

\* C39: the semicolon-validation walk over a scope terminates for every
\* finite token sequence: every pass of its main loop that does not raise
\* leaves the cursor strictly further than where the pass started (the steps
\* that move it back by one after a bracket group or a block keyword
\* included) and never beyond the position after the last child, and the
\* walk ends or raises.
C39_WalkTerminates ==
    /\ [][(pc = "walk" /\ pc' = "walk") =>
              (child_index' > child_index /\ child_index' <= Len(WalkKids) + 1)]_vars
    /\ <>(pc \in {"done", "raised"})

\* the walk has ended normally on a scope with a block keyword that has a
\* parameter list and with a bracket group
C39_Witness ==
    /\ phase = "minify"
    /\ pc = "done"
    /\ child_index > 1
    /\ \E k \in 1..Len(WalkKids) :
          /\ IsKind(js_tokens, WalkKids[k], "js-keyword")
          /\ js_tokens[WalkKids[k]].text \in BlockKeywords
          /\ k < Len(WalkKids)
          /\ IsOperator(js_tokens, WalkKids[k + 1], <<"(">>)
    /\ \E k \in 1..Len(WalkKids) :
          /\ IsOperator(js_tokens, WalkKids[k], <<"[">>)

\* ---------------------------------------------------------------------------
\* C40: every rejection of the walk is a CompileException
\* ---------------------------------------------------------------------------

\* C40: every rejection by the validation pass is a CompileException that
\* carries the position of a token of the scope: the cursor is never
\* dereferenced at or beyond the end of scope.children, also when a block
\* keyword (with or without a name after it) is the last token of the scope.
C40_RejectionIsCompileException ==
    (phase = "minify" /\ pc = "raised" /\ child_index > 0) =>
        /\ raised.type = "CompileException"
        /\ \E k \in 1..Len(WalkKids) :
              /\ raised.line = TokenLine(js_tokens, WalkKids[k])
              /\ raised.column = TokenColumn(js_tokens, WalkKids[k])

====
